---- MODULE Spec2Model ----
(***************************************************************************)
(* SparoBot: the dosage planner, the speech script and the calendar of a    *)
(* plan (js/chemistry.js), and the colour matchers and the sampling of a   *)
(* canvas (js/colorChart.js).  Each function has its own specification:    *)
(* Spec and SpecDose (calculateCorrections), SpecSpeech                    *)
(* (buildSpeechScript), SpecICS (generateICS), SpecMatch (matchColor,      *)
(* matchColorInterpolated) and SpecExtract (extractAverageColor).          *)
(*                                                                         *)
(* JavaScript numbers are modelled as exact rationals <<n, d>> in lowest   *)
(* terms with d > 0.  Readings are decimal numbers with one fractional     *)
(* digit (what matchColorInterpolated produces), volumes are whole         *)
(* gallons.  On these inputs every comparison of the planner is between    *)
(* decimal literals, so the exact comparison is the one the doubles give.  *)
(***************************************************************************)
EXTENDS Integers, Sequences, FiniteSets, TLC

VARIABLES
    pc,             \* which call is pending or has returned
    readings,       \* calculateCorrections: the panel, key -> number or undefined
    volumeGallons,  \* calculateCorrections: second argument
    sanitizerType,  \* calculateCorrections: third argument
    corrections,    \* calculateCorrections: the returned array
    chartKey,       \* matchColor: the chart asked for
    sampled,        \* matchColor: <<sampledR, sampledG, sampledB>>
    matchResult,    \* matchColor: what it returned
    interpolated,   \* matchColorInterpolated: what it returned
    distances,      \* how many times deltaE76 has been called
    canvas,         \* extractAverageColor: the canvas, [width, height, pixels]
    tap,            \* extractAverageColor: <<x, y>>
    sampleRadius,   \* extractAverageColor: last argument
    region,         \* extractAverageColor: the rectangle given to getImageData
    average,        \* extractAverageColor: what it returned
    speech,         \* buildSpeechScript: the lines of the script
    startTime,      \* generateICS: second argument, a time or null
    now,            \* generateICS: what Date.now() gives
    events,         \* generateICS: the events of the calendar
    screen,         \* app: state.screen, the screen that is rendered
    stateVolume,    \* app: state.volume
    volumeUnit,     \* app: state.volumeUnit
    history,        \* app: state.history
    storage,        \* app: localStorage, item name -> text
    analysisStep,   \* app: state.analysisStep
    analysisParams, \* app: state.analysisParams
    view,           \* app: the elements of the analyze screen and their handlers
    closures,       \* app: the live calls of renderAnalyze, id -> its locals
    timers,         \* app: the callbacks queued by setTimeout, oldest first
    loads,          \* app: how many chosen images are still loading
    saved           \* app: how many results have been saved since the page loaded

plannerVars == <<readings, volumeGallons, sanitizerType, corrections>>
matcherVars == <<chartKey, sampled, matchResult, interpolated, distances>>
extractorVars == <<canvas, tap, sampleRadius, region, average>>

speakerVars == <<speech>>
calendarVars == <<startTime, now, events>>

appVars == <<screen, stateVolume, volumeUnit, history, storage, analysisStep, analysisParams,
             view, closures, timers, loads, saved>>

vars == <<pc, plannerVars, matcherVars, extractorVars, speakerVars, calendarVars, appVars>>

----------------------------------------------------------------------------
(* Numbers *)

Abs(n) == IF n < 0 THEN -n ELSE n

RECURSIVE GCD(_, _)
GCD(a, b) == IF b = 0 THEN a ELSE GCD(b, a % b)

\* the rational n/d (d > 0) in lowest terms
Rat(n, d) == LET g == GCD(Abs(n), d) IN <<n \div g, d \div g>>

Num(n) == <<n, 1>>
RAdd(a, b) == Rat(a[1] * b[2] + b[1] * a[2], a[2] * b[2])
RSub(a, b) == Rat(a[1] * b[2] - b[1] * a[2], a[2] * b[2])
\* common factors are cancelled crosswise before multiplying, so that the
\* products stay within TLC's 32-bit integers
RMul(a, b) ==
    LET g1 == GCD(Abs(a[1]), b[2])
        g2 == GCD(Abs(b[1]), a[2])
    IN  <<(a[1] \div g1) * (b[1] \div g2), (a[2] \div g2) * (b[2] \div g1)>>
\* a / b for b > 0
RDiv(a, b) == RMul(a, <<b[2], b[1]>>)

\* n1/d1 < n2/d2 by whole parts and then by the inverted fractional parts,
\* without a product
RECURSIVE LessByParts(_, _, _, _)
LessByParts(n1, d1, n2, d2) ==
    IF n1 \div d1 # n2 \div d2 THEN n1 \div d1 < n2 \div d2
    ELSE IF n2 % d2 = 0 THEN FALSE
    ELSE IF n1 % d1 = 0 THEN TRUE
    ELSE LessByParts(d2, n2 % d2, d1, n1 % d1)

\* a < b, false when either is not a number; the products are compared
\* where they fit TLC's 32-bit integers
RLess(a, b) ==
    IF a[2] = 0 \/ b[2] = 0 THEN FALSE
    ELSE IF Abs(a[1]) < 40000 /\ a[2] < 40000 /\ Abs(b[1]) < 40000 /\ b[2] < 40000
    THEN a[1] * b[2] < b[1] * a[2]
    ELSE LessByParts(a[1], a[2], b[1], b[2])

\* C20 mutant: Math.floor in the place of Math.round
MathRoundDown(a) == a[1] \div a[2]

\* Math.round: the integer nearest to a, halves up
MathRound(a) == (2 * a[1] + a[2]) \div (2 * a[2])

\* the digits of a.toFixed(k) for a >= 0, as the integer a * 10^k rounded
ToFixed(a, k) == MathRound(RMul(a, Num(10 ^ k)))

\* the value of a property that the object does not have
undefined == <<0, 0>>

\* null
null == [null |-> TRUE]

----------------------------------------------------------------------------
(* Reference data of chemistry.js *)

PARAMETERS ==
    [ freeChlorine    |-> [name |-> "Free Chlorine",    unit |-> "ppm",
                           idealMin |-> Num(3),   idealMax |-> Num(5),
                           levels |-> << Num(0), Num(1), Num(2), Num(3), Num(5), Num(10) >>],
      totalChlorine   |-> [name |-> "Total Chlorine",   unit |-> "ppm",
                           idealMin |-> Num(3),   idealMax |-> Num(5),
                           levels |-> << Num(0), Rat(5, 10), Num(1), Num(2), Num(5), Num(10) >>],
      bromine         |-> [name |-> "Total Bromine",    unit |-> "ppm",
                           idealMin |-> Num(4),   idealMax |-> Num(6),
                           levels |-> << Num(0), Num(1), Num(2), Num(4), Num(10), Num(20) >>],
      pH              |-> [name |-> "pH",               unit |-> "",
                           idealMin |-> Rat(72, 10), idealMax |-> Rat(78, 10),
                           levels |-> << Rat(64, 10), Rat(68, 10), Rat(72, 10), Rat(78, 10), Rat(84, 10) >>],
      totalAlkalinity |-> [name |-> "Total Alkalinity", unit |-> "ppm",
                           idealMin |-> Num(80),  idealMax |-> Num(120),
                           levels |-> << Num(0), Num(40), Num(80), Num(120), Num(180), Num(240) >>],
      totalHardness   |-> [name |-> "Calcium Hardness", unit |-> "ppm",
                           idealMin |-> Num(175), idealMax |-> Num(250),
                           levels |-> << Num(0), Num(100), Num(200), Num(400), Num(800) >>],
      cyanuricAcid    |-> [name |-> "Cyanuric Acid",    unit |-> "ppm",
                           idealMin |-> Num(30),  idealMax |-> Num(50),
                           levels |-> << Num(0), Num(40), Num(70), Num(100), Num(150), Num(300) >>] ]

Keys == DOMAIN PARAMETERS

DOSAGES ==
    [ alkalinityUp |-> [chemical |-> "Sodium Bicarbonate (Baking Soda)",
                        per10kGal |-> Rat(15, 10), unit |-> "lbs", ppmPer |-> Num(10)],
      phUp         |-> [chemical |-> "Soda Ash (Sodium Carbonate)",
                        per10kGal |-> Num(6),  unit |-> "oz", phPer |-> Rat(2, 10)],
      phDown       |-> [chemical |-> "Sodium Bisulfate (pH Decreaser)",
                        per10kGal |-> Num(12), unit |-> "oz", phPer |-> Rat(2, 10)],
      chlorineUp   |-> [chemical |-> "Sodium Dichlor (56% Chlorine Granules)",
                        per10kGal |-> Num(2),  unit |-> "oz", ppmPer |-> Rat(15, 10)],
      bromineUp    |-> [chemical |-> "Sodium Bromide + MPS Shock",
                        per10kGal |-> Num(2),  unit |-> "oz", ppmPer |-> Num(2)],
      hardnessUp   |-> [chemical |-> "Calcium Chloride",
                        per10kGal |-> Rat(125, 100), unit |-> "lbs", ppmPer |-> Num(10)],
      cyaUp        |-> [chemical |-> "Cyanuric Acid (Stabilizer)",
                        per10kGal |-> Num(1),  unit |-> "lbs", ppmPer |-> Num(12)] ]

----------------------------------------------------------------------------
(* formatAmount: the text is kept as its form and the digits it prints *)

Amount(form, n1, n2) == [form |-> form, n1 |-> n1, n2 |-> n2]

formatAmount(value, unit) ==
    IF unit = "oz" THEN
        IF RLess(value, Rat(5, 10)) THEN
            Amount("teaspoons", MathRound(RMul(value, Num(6))), 0)
        ELSE IF RLess(value, Num(1)) THEN
            Amount("tablespoons.1", ToFixed(RMul(value, Num(2)), 1), 0)
        ELSE IF RLess(value, Num(4)) THEN
            Amount("oz.1", ToFixed(value, 1), 0)
        ELSE Amount("oz.1 (lbs.2)", ToFixed(value, 1), ToFixed(RDiv(value, Num(16)), 2))
    ELSE IF unit = "lbs" THEN
        IF RLess(value, Rat(3, 100)) THEN
            Amount("teaspoons", MathRound(RMul(value, Num(96))), 0)
        ELSE IF RLess(value, Rat(625, 10000)) THEN
            Amount("tablespoons.1", ToFixed(RMul(value, Num(32)), 1), 0)
        ELSE IF RLess(value, Rat(25, 100)) THEN
            Amount("oz.1", ToFixed(RMul(value, Num(16)), 1), 0)
        ELSE Amount("lbs.2 (oz.1)", ToFixed(value, 2), ToFixed(RMul(value, Num(16)), 1))
    ELSE Amount(unit, ToFixed(value, 2), 0)

----------------------------------------------------------------------------
(* calculateCorrections *)

\* One element of the returned array.  reason, calcBreakdown and notes are
\* display text computed from the same values and are left out; amt is the
\* branch's local of that name (the raw quantity before formatting), kept
\* beside the formatted amount, and undefined where the branch computes none.
Correction(order, parameter, action, chemical, amount, amt, waitMinutes) ==
    [order |-> order, parameter |-> parameter, action |-> action,
     chemical |-> chemical, amount |-> amount, amt |-> amt,
     waitMinutes |-> waitMinutes]

\* the action text: its verb and the two numbers it prints
Action(verb, from, to) == [verb |-> verb, from |-> from, to |-> to]

\* C5 mutant: the scale rounded to one decimal, Math.round(volume / 1000) / 10
ScaleRounded(volume) == Rat(MathRound(RDiv(volume, Num(1000))), 10)

\* const scale = volumeGallons / 10000
Scale(volume) == RDiv(volume, Num(10000))

\* C3 mutant: val <= p.idealMin
IsLowOrEqual(val, p) == ~RLess(p.idealMin, val)

\* val < p.idealMin
IsLow(val, p) == RLess(val, p.idealMin)

\* val > p.idealMax
IsHigh(val, p) == RLess(p.idealMax, val)

\* C9 mutant: the top of the ideal range taken as the target
MidpointAsMax(p) == p.idealMax

\* (p.idealMin + p.idealMax) / 2
Midpoint(p) == RDiv(RAdd(p.idealMin, p.idealMax), Num(2))

\* (needed / rate) * per10kGal * scale
\* C22 mutant: multiplied by the rate where the code divides by it
DoseTimesRate(needed, rate, per10kGal, scale) ==
    RMul(RMul(RMul(needed, rate), per10kGal), scale)

\* C19 mutant: the factor scale left out
DoseUnscaled(needed, rate, per10kGal, scale) == RMul(RDiv(needed, rate), per10kGal)

\* (needed / rate) * d.per10kGal * scale
Dose(needed, rate, per10kGal, scale) ==
    RMul(RMul(RDiv(needed, rate), per10kGal), scale)


\* Step 1: Total Alkalinity
TotalAlkalinityStep(rd, scale) ==
    IF rd["totalAlkalinity"] = undefined THEN <<>>
    ELSE
        LET val    == rd["totalAlkalinity"]
            p      == PARAMETERS.totalAlkalinity
            target == Midpoint(p)
        IN  IF IsLow(val, p) THEN
                LET ppmNeeded == RSub(target, val)
                    d   == DOSAGES.alkalinityUp
                    amt == Dose(ppmNeeded, d.ppmPer, d.per10kGal, scale)
                IN  << Correction(1, "Total Alkalinity",
                                  Action("Raise", val, Num(MathRound(target))),
                                  d.chemical, formatAmount(amt, d.unit), amt, 20) >>
            ELSE IF IsHigh(val, p) THEN
                LET excess == RSub(val, p.idealMax)
                    amt == RMul(RMul(excess, Rat(1, 10)), scale)
                IN  << Correction(1, "Total Alkalinity",
                                  Action("Lower", val, p.idealMax),
                                  "Sodium Bisulfate (pH Decreaser)",
                                  formatAmount(amt, "oz"), amt, 20) >>
            ELSE <<>>

\* Step 2: pH
pHStep(rd, scale) ==
    IF rd["pH"] = undefined THEN <<>>
    ELSE
        LET val    == rd["pH"]
            p      == PARAMETERS.pH
            target == Rat(75, 10)
            shown  == Rat(ToFixed(val, 1), 10)
        IN  IF IsLow(val, p) THEN
                LET phNeeded == RSub(target, val)
                    d   == DOSAGES.phUp
                    amt == Dose(phNeeded, d.phPer, d.per10kGal, scale)
                IN  << Correction(2, "pH", Action("Raise", shown, target),
                                  d.chemical, formatAmount(amt, d.unit), amt, 20) >>
            ELSE IF IsHigh(val, p) THEN
                LET phNeeded == RSub(val, target)
                    d   == DOSAGES.phDown
                    amt == Dose(phNeeded, d.phPer, d.per10kGal, scale)
                IN  << Correction(2, "pH", Action("Lower", shown, target),
                                  d.chemical, formatAmount(amt, d.unit), amt, 20) >>
            ELSE <<>>

\* C8 mutant: the range of step 1 left in place, PARAMETERS.totalAlkalinity
HardnessParamCopied == PARAMETERS.totalAlkalinity

\* const p = PARAMETERS.totalHardness
HardnessParam == PARAMETERS.totalHardness

\* Step 3: Calcium Hardness
CalciumHardnessStep(rd, scale) ==
    IF rd["totalHardness"] = undefined THEN <<>>
    ELSE
        LET val    == rd["totalHardness"]
            p      == HardnessParam
            target == Midpoint(p)
        IN  IF IsLow(val, p) THEN
                LET ppmNeeded == RSub(target, val)
                    d   == DOSAGES.hardnessUp
                    amt == Dose(ppmNeeded, d.ppmPer, d.per10kGal, scale)
                IN  << Correction(3, "Calcium Hardness",
                                  Action("Raise", val, Num(MathRound(target))),
                                  d.chemical, formatAmount(amt, d.unit), amt, 20) >>
            ELSE IF IsHigh(val, p) THEN
                LET pct == MathRound(RMul(RSub(Num(1), RDiv(p.idealMax, val)), Num(100)))
                IN  << Correction(3, "Calcium Hardness",
                                  Action("Lower", val, undefined),
                                  "Partial Water Replacement",
                                  Amount("Drain ~% and refill with fresh water", pct, 0),
                                  undefined, 60) >>
            ELSE <<>>

\* C21 mutant: the bromine case forgotten
SanKeyAlwaysChlorine(san) == "freeChlorine"

\* C4 mutant: the chlorine key mistaken for totalChlorine
SanKeyTotalChlorine(san) == IF san = "bromine" THEN "bromine" ELSE "totalChlorine"

\* const sanKey = sanitizerType === 'bromine' ? 'bromine' : 'freeChlorine'
SanKey(san) == IF san = "bromine" THEN "bromine" ELSE "freeChlorine"

\* C7 mutant: the chlorine rule whatever the sanitizer
DosageKeyChlorine(san) == "chlorineUp"

\* const dKey = sanitizerType === 'bromine' ? 'bromineUp' : 'chlorineUp'
DosageKey(san) == IF san = "bromine" THEN "bromineUp" ELSE "chlorineUp"

\* Step 4: Sanitizer
SanitizerStep(rd, scale, san) ==
    LET sanKey == SanKey(san) IN
    IF rd[sanKey] = undefined THEN <<>>
    ELSE
        LET val    == rd[sanKey]
            p      == PARAMETERS[sanKey]
            target == Midpoint(p)
        IN  IF IsLow(val, p) THEN
                LET ppmNeeded == RSub(target, val)
                    d   == DOSAGES[DosageKey(san)]
                    amt == Dose(ppmNeeded, d.ppmPer, d.per10kGal, scale)
                IN  << Correction(4, p.name, Action("Raise", val, target),
                                  d.chemical, formatAmount(amt, d.unit), amt, 15) >>
            ELSE IF IsHigh(val, p) THEN
                << Correction(4, p.name, Action("is high at", val, undefined),
                              "Wait & Aerate",
                              Amount("Leave cover off, run jets", 0, 0),
                              undefined, 30) >>
            ELSE <<>>

\* C1 mutant: the sanitizer test inverted
CyanuricAcidAppliesBromine(rd, san) == san = "bromine" /\ rd["cyanuricAcid"] # undefined

\* C6 mutant: the sanitizer test forgotten
CyanuricAcidAppliesAnyType(rd, san) == rd["cyanuricAcid"] # undefined

\* sanitizerType === 'chlorine' && readings.cyanuricAcid !== undefined
CyanuricAcidApplies(rd, san) == san = "chlorine" /\ rd["cyanuricAcid"] # undefined

\* Step 5: Cyanuric Acid (chlorine systems only)
CyanuricAcidStep(rd, scale, san) ==
    IF ~CyanuricAcidApplies(rd, san) THEN <<>>
    ELSE
        LET val    == rd["cyanuricAcid"]
            p      == PARAMETERS.cyanuricAcid
            target == Midpoint(p)
        IN  IF IsLow(val, p) THEN
                LET ppmNeeded == RSub(target, val)
                    d   == DOSAGES.cyaUp
                    amt == Dose(ppmNeeded, d.ppmPer, d.per10kGal, scale)
                IN  << Correction(5, "Cyanuric Acid",
                                  Action("Raise", val, Num(MathRound(target))),
                                  d.chemical, formatAmount(amt, d.unit), amt, 30) >>
            ELSE IF IsHigh(val, p) THEN
                LET pct == MathRound(RMul(RSub(Num(1), RDiv(p.idealMax, val)), Num(100)))
                IN  << Correction(5, "Cyanuric Acid",
                                  Action("CYA too high at", val, undefined),
                                  "Partial Water Replacement",
                                  Amount("Drain ~% and refill", pct, 0),
                                  undefined, 60) >>
            ELSE <<>>

\* C2 mutant: the comparator reversed, b.order - a.order
CompareOrderDescending(a, b) == b.order - a.order

\* (a, b) => a.order - b.order
CompareOrder(a, b) == a.order - b.order

\* Array.prototype.sort with that comparator: stable, ascending by it
RECURSIVE InsertByOrder(_, _)
InsertByOrder(c, sorted) ==
    IF sorted = <<>> THEN <<c>>
    ELSE IF CompareOrder(c, Head(sorted)) < 0 THEN <<c>> \o sorted
    ELSE <<Head(sorted)>> \o InsertByOrder(c, Tail(sorted))

RECURSIVE SortByOrder(_)
SortByOrder(s) ==
    IF s = <<>> THEN <<>>
    ELSE InsertByOrder(s[Len(s)], SortByOrder(SubSeq(s, 1, Len(s) - 1)))

calculateCorrections(rd, volume, san) ==
    LET scale == Scale(volume)
    IN  SortByOrder(TotalAlkalinityStep(rd, scale)
                    \o pHStep(rd, scale)
                    \o CalciumHardnessStep(rd, scale)
                    \o SanitizerStep(rd, scale, san)
                    \o CyanuricAcidStep(rd, scale, san))

----------------------------------------------------------------------------
(* Reference data of colorChart.js *)

\* C24 mutant: the value of a point taken from its red channel
PointValueFromRed(value, r, g, b) == [value |-> Num(r), r |-> r, g |-> g, b |-> b]

Point(value, r, g, b) == [value |-> value, r |-> r, g |-> g, b |-> b]

COLOR_CHARTS ==
    [ freeChlorine |-> [name |-> "Free Chlorine", key |-> "freeChlorine", colors |->
        << Point(Num(0), 255, 248, 240),  Point(Num(1), 255, 210, 210),
           Point(Num(2), 255, 170, 170),  Point(Num(3), 245, 130, 145),
           Point(Num(5), 220, 80, 110),   Point(Num(10), 190, 40, 80) >>],
      totalChlorine |-> [name |-> "Total Chlorine", key |-> "totalChlorine", colors |->
        << Point(Num(0), 255, 248, 240),  Point(Rat(5, 10), 255, 225, 220),
           Point(Num(1), 255, 195, 185),  Point(Num(2), 250, 150, 135),
           Point(Num(5), 225, 95, 80),    Point(Num(10), 195, 55, 40) >>],
      bromine |-> [name |-> "Total Bromine", key |-> "bromine", colors |->
        << Point(Num(0), 255, 250, 240),  Point(Num(1), 255, 225, 210),
           Point(Num(2), 255, 195, 175),  Point(Num(4), 245, 145, 125),
           Point(Num(10), 220, 90, 70),   Point(Num(20), 185, 50, 35) >>],
      pH |-> [name |-> "pH", key |-> "pH", colors |->
        << Point(Rat(64, 10), 235, 200, 65), Point(Rat(68, 10), 225, 180, 55),
           Point(Rat(72, 10), 215, 150, 55), Point(Rat(78, 10), 195, 105, 60),
           Point(Rat(84, 10), 165, 65, 85) >>],
      totalAlkalinity |-> [name |-> "Total Alkalinity", key |-> "totalAlkalinity", colors |->
        << Point(Num(0), 225, 210, 55),   Point(Num(40), 185, 210, 60),
           Point(Num(80), 110, 190, 75),  Point(Num(120), 60, 160, 70),
           Point(Num(180), 45, 135, 100), Point(Num(240), 40, 110, 135) >>],
      totalHardness |-> [name |-> "Calcium Hardness", key |-> "totalHardness", colors |->
        << Point(Num(0), 55, 170, 135),   Point(Num(100), 75, 120, 180),
           Point(Num(200), 110, 90, 170), Point(Num(400), 155, 60, 130),
           Point(Num(800), 200, 45, 80) >>],
      cyanuricAcid |-> [name |-> "Cyanuric Acid", key |-> "cyanuricAcid", colors |->
        << Point(Num(0), 235, 220, 195),  Point(Num(40), 200, 180, 140),
           Point(Num(70), 175, 155, 115), Point(Num(100), 145, 125, 90),
           Point(Num(150), 115, 95, 65),  Point(Num(300), 80, 65, 45) >> ] ]

----------------------------------------------------------------------------
(* rgbToLab and deltaE76 in fixed point.  A channel c / 255 is passed as the
   integer c in 0..255.  Linear RGB is kept to 1e-5, XYZ and its ratio to the
   reference white to 1e-9, f to 1e-5, and l, a, b and deltaE to 0.01 (the
   returned l, a, b are within 0.03 of the doubles of the code). *)

\* linearize(c / 255) * 1e5 for c = 0..255:
\* c > 0.04045 ? Math.pow((c + 0.055) / 1.055, 2.4) : c / 12.92
linearizeTable ==
    <<
            0,     30,     61,     91,    121,    152,    182,    212,    243,    273,    304,    335,
          368,    402,    439,    478,    518,    561,    605,    651,    700,    750,    802,    857,
          913,    972,   1033,   1096,   1161,   1229,   1298,   1370,   1444,   1521,   1600,   1681,
         1764,   1850,   1938,   2029,   2122,   2217,   2315,   2416,   2519,   2624,   2732,   2843,
         2956,   3071,   3190,   3310,   3434,   3560,   3689,   3820,   3955,   4092,   4231,   4374,
         4519,   4667,   4817,   4971,   5127,   5286,   5448,   5613,   5781,   5951,   6125,   6301,
         6480,   6663,   6848,   7036,   7227,   7421,   7619,   7819,   8022,   8228,   8438,   8650,
         8866,   9084,   9306,   9531,   9759,   9990,  10224,  10462,  10702,  10946,  11193,  11444,
        11697,  11954,  12214,  12477,  12744,  13014,  13287,  13563,  13843,  14126,  14413,  14703,
        14996,  15293,  15593,  15896,  16203,  16513,  16827,  17144,  17465,  17789,  18116,  18447,
        18782,  19120,  19462,  19807,  20156,  20508,  20864,  21223,  21586,  21953,  22323,  22697,
        23074,  23455,  23840,  24228,  24620,  25016,  25415,  25818,  26225,  26636,  27050,  27468,
        27889,  28315,  28744,  29177,  29614,  30054,  30499,  30947,  31399,  31855,  32314,  32778,
        33245,  33716,  34191,  34670,  35153,  35640,  36131,  36625,  37124,  37626,  38133,  38643,
        39157,  39676,  40198,  40724,  41254,  41789,  42327,  42869,  43415,  43966,  44520,  45079,
        45641,  46208,  46778,  47353,  47932,  48515,  49102,  49693,  50289,  50888,  51492,  52100,
        52712,  53328,  53948,  54572,  55201,  55834,  56471,  57112,  57758,  58408,  59062,  59720,
        60383,  61050,  61721,  62396,  63076,  63760,  64448,  65141,  65837,  66539,  67244,  67954,
        68669,  69387,  70110,  70838,  71569,  72306,  73046,  73791,  74540,  75294,  76052,  76815,
        77582,  78354,  79130,  79910,  80695,  81485,  82279,  83077,  83880,  84687,  85499,  86316,
        87137,  87962,  88792,  89627,  90466,  91310,  92158,  93011,  93869,  94731,  95597,  96469,
        97345,  98225,  99110, 100000
    >>

linearize(c) == linearizeTable[c + 1]

\* v * k for a matrix entry k = (hi * 1000 + lo) * 1e-7, v to 1e-5: to 1e-9
TimesCoefficient(v, hi, lo) == v * hi + (v * lo) \div 1000

\* x / ref for x to 1e-9 and ref = ref5 * 1e-5: to 1e-9, by long division
DivideByWhite(x, ref5) ==
    LET q1 == x \div ref5
        r1 == x % ref5
        q2 == (r1 * 1000) \div ref5
        r2 == (r1 * 1000) % ref5
        q3 == (r2 * 100) \div ref5
    IN  q1 * 100000 + q2 * 100 + q3

\* the largest n in lo..hi with n^3 <= t
RECURSIVE FloorCubeRoot(_, _, _)
FloorCubeRoot(t, lo, hi) ==
    IF lo = hi THEN lo
    ELSE LET mid == (lo + hi + 1) \div 2
         IN  IF mid * mid * mid <= t THEN FloorCubeRoot(t, mid, hi)
             ELSE FloorCubeRoot(t, lo, mid - 1)

\* Math.cbrt(t) to 1e-5 for t to 1e-9: the floor cube root to 1e-3 and a
\* linear interpolation to the next cube
Cbrt(t) ==
    LET n == FloorCubeRoot(t, 0, 1250)
        r == t - n * n * n
    IN  n * 100 + (r * 100) \div (3 * n * n + 3 * n + 1)

\* const f = t => t > 0.008856 ? Math.cbrt(t) : (t * 7.787) + 16 / 116
LabF(t) ==
    IF t > 8856000 THEN Cbrt(t)
    ELSE ((t \div 1000) * 7787) \div 10000 + 13793

\* n / d rounded to the nearest integer
Rounded(n, d) == (2 * n + d) \div (2 * d)

rgbToLab(r, g, b) ==
    LET rL == linearize(r)
        gL == linearize(g)
        bL == linearize(b)
        x  == TimesCoefficient(rL, 4124, 564) + TimesCoefficient(gL, 3575, 761)
                + TimesCoefficient(bL, 1804, 375)
        y  == TimesCoefficient(rL, 2126, 729) + TimesCoefficient(gL, 7151, 522)
                + TimesCoefficient(bL, 721, 750)
        z  == TimesCoefficient(rL, 193, 339) + TimesCoefficient(gL, 1191, 920)
                + TimesCoefficient(bL, 9503, 41)
        fx == LabF(DivideByWhite(x, 95047))
        fy == LabF(y)
        fz == LabF(DivideByWhite(z, 108883))
    IN  [l |-> Rounded(116 * fy - 1600000, 1000),
         a |-> Rounded(500 * (fx - fy), 1000),
         b |-> Rounded(200 * (fy - fz), 1000)]

\* the largest n in lo..hi with n^2 <= t
RECURSIVE FloorSqrt(_, _, _)
FloorSqrt(t, lo, hi) ==
    IF lo = hi THEN lo
    ELSE LET mid == (lo + hi + 1) \div 2
         IN  IF mid * mid <= t THEN FloorSqrt(t, mid, hi)
             ELSE FloorSqrt(t, lo, mid - 1)

\* CIE76: Math.sqrt(dl * dl + da * da + db * db), to 0.01
deltaE76(lab1, lab2) ==
    LET dl == lab1.l - lab2.l
        da == lab1.a - lab2.a
        db == lab1.b - lab2.b
    IN  FloorSqrt(dl * dl + da * da + db * db, 0, 46340)

----------------------------------------------------------------------------
(* matchColor *)

\* Infinity: above every distance
Infinity == 2147483647

\* C10 mutant: the braces forgotten, bestMatch = ref runs on every turn
MatchStepNoBraces(best, ref, dE) ==
    [bestDeltaE |-> IF dE < best.bestDeltaE THEN dE ELSE best.bestDeltaE,
     bestMatch |-> ref]

\* one turn of the loop over chart.colors:
\* if (dE < bestDeltaE) { bestDeltaE = dE; bestMatch = ref; }
MatchStep(best, ref, dE) ==
    IF dE < best.bestDeltaE THEN [bestDeltaE |-> dE, bestMatch |-> ref]
    ELSE best

\* C14 mutant: the loop leaves out the first point of the chart
RECURSIVE MatchLoopSkipFirst(_, _, _, _)
MatchLoopSkipFirst(colors, i, sampledLab, best) ==
    IF i > Len(colors) THEN best
    ELSE LET ref    == colors[i]
             refLab == rgbToLab(ref.r, ref.g, ref.b)
             dE     == deltaE76(sampledLab, refLab)
         IN  MatchLoopSkipFirst(colors, i + 1, sampledLab,
                                IF i = 1 THEN best ELSE MatchStep(best, ref, dE))

\* for (const ref of chart.colors), from the i-th on
RECURSIVE MatchLoop(_, _, _, _)
MatchLoop(colors, i, sampledLab, best) ==
    IF i > Len(colors) THEN best
    ELSE LET ref    == colors[i]
             refLab == rgbToLab(ref.r, ref.g, ref.b)
             dE     == deltaE76(sampledLab, refLab)
         IN  MatchLoop(colors, i + 1, sampledLab, MatchStep(best, ref, dE))

\* C11 mutant: an unknown key falls back to the first chart,
\* COLOR_CHARTS[chartKey] || COLOR_CHARTS.freeChlorine
ChartOrFirst(key) ==
    IF key \in DOMAIN COLOR_CHARTS THEN COLOR_CHARTS[key]
    ELSE COLOR_CHARTS["freeChlorine"]

\* const chart = COLOR_CHARTS[chartKey]: the chart, or for a key that names
\* none a value that !chart takes as missing (written as null: a record, so
\* that it can be compared with a chart)
ChartOf(key) ==
    IF key \in DOMAIN COLOR_CHARTS THEN COLOR_CHARTS[key] ELSE null

matchColor(sampledR, sampledG, sampledB, key) ==
    IF ChartOf(key) = null THEN null
    ELSE LET chart      == ChartOf(key)
             sampledLab == rgbToLab(sampledR, sampledG, sampledB)
             best       == MatchLoop(chart.colors, 1, sampledLab,
                                     [bestDeltaE |-> Infinity, bestMatch |-> null])
         IN  [value |-> best.bestMatch.value, deltaE |-> best.bestDeltaE,
              refColor |-> best.bestMatch]

----------------------------------------------------------------------------
(* buildSpeechScript *)

\* C17 mutant: the comparisons take the ends of the range as outside,
\* value <= param.idealMin, value >= param.idealMax
getStatusInclusive(paramKey, value) ==
    IF paramKey \notin DOMAIN PARAMETERS THEN "unknown"
    ELSE IF ~RLess(PARAMETERS[paramKey].idealMin, value) THEN "low"
    ELSE IF ~RLess(value, PARAMETERS[paramKey].idealMax) THEN "high"
    ELSE "ok"

getStatus(paramKey, value) ==
    IF paramKey \notin DOMAIN PARAMETERS THEN "unknown"
    ELSE IF RLess(value, PARAMETERS[paramKey].idealMin) THEN "low"
    ELSE IF RLess(PARAMETERS[paramKey].idealMax, value) THEN "high"
    ELSE "ok"

\* status === 'ok' ? 'in the ideal range' : status === 'low' ? 'low' : 'high'
StatusWord(status) ==
    IF status = "ok" THEN "in the ideal range"
    ELSE IF status = "low" THEN "low" ELSE "high"

\* the first line of the script
Opening == [text |-> "Here are your spa water test results."]

\* `pH is ${val.toFixed(1)}, which is ${statusWord}.`, and for the others
\* `${param.name} is ${val} ${param.unit}, which is ${statusWord}.`
Sentence(key, val, statusWord) ==
    IF key = "pH"
    THEN [text |-> "pH is #, which is #.", name |-> "pH",
          value |-> Rat(ToFixed(val, 1), 10), unit |-> "", statusWord |-> statusWord]
    ELSE [text |-> "# is # #, which is #.", name |-> PARAMETERS[key].name,
          value |-> val, unit |-> PARAMETERS[key].unit, statusWord |-> statusWord]

paramsToRead(san) ==
    IF san = "bromine" THEN <<"pH", "totalAlkalinity", "totalHardness", "bromine">>
    ELSE <<"pH", "totalAlkalinity", "totalHardness", "freeChlorine", "cyanuricAcid">>

\* for (const key of paramsToRead), from the i-th key on
RECURSIVE SpeechLoop(_, _, _, _)
SpeechLoop(rd, keys, i, lines) ==
    IF i > Len(keys) THEN lines
    ELSE IF rd[keys[i]] = undefined THEN SpeechLoop(rd, keys, i + 1, lines)
    ELSE SpeechLoop(rd, keys, i + 1,
                    Append(lines, Sentence(keys[i], rd[keys[i]],
                                           StatusWord(getStatus(keys[i], rd[keys[i]])))))

\* the lines of the script, which the code joins with ' '
buildSpeechScript(rd, san) == SpeechLoop(rd, paramsToRead(san), 1, <<Opening>>)

----------------------------------------------------------------------------
(* generateICS: times are milliseconds since a local midnight *)

\* formatDate: the local date and time of day to the minute, the seconds
\* written as 00 (a day has 24 hours: no change of clock in between)
formatDate(date) ==
    [day     |-> date \div 86400000,
     hours   |-> (date \div 3600000) % 24,
     minutes |-> (date \div 60000) % 60,
     seconds |-> 0]

\* the lines DTSTART, DTEND, SUMMARY and TRIGGER of an event
makeEvent(title, startDate, durationMinutes) ==
    LET endDate == startDate + durationMinutes * 60000
    IN  [DTSTART |-> formatDate(startDate), DTEND |-> formatDate(endDate),
         SUMMARY |-> title, TRIGGER |-> 15]

\* `Spa: ${c.action}`
Title(c) == <<"Spa: ", c.action>>

\* C18 mutant: the update of currentTime forgotten
NextTimeSame(currentTime, c) == currentTime

\* currentTime = new Date(currentTime.getTime() + c.waitMinutes * 60000)
NextTime(currentTime, c) == currentTime + c.waitMinutes * 60000

\* corrections.map(...) from the i-th correction on, then the push of the
\* event 'Spa: Retest Water'
RECURSIVE EventsLoop(_, _, _, _)
EventsLoop(cs, i, currentTime, evs) ==
    IF i > Len(cs)
    THEN Append(evs, makeEvent(<<"Spa: ", "Retest Water">>, currentTime, 15))
    ELSE EventsLoop(cs, i + 1, NextTime(currentTime, cs[i]),
                    Append(evs, makeEvent(Title(cs[i]), currentTime, cs[i].waitMinutes)))

\* const start = startTime || new Date(Date.now() + 30 * 60000)
StartOf(start, clock) == IF start = null THEN clock + 30 * 60000 ELSE start.time

\* the events between BEGIN:VCALENDAR and END:VCALENDAR
generateICS(cs, start, clock) == EventsLoop(cs, 1, StartOf(start, clock), <<>>)

----------------------------------------------------------------------------
(* matchColorInterpolated *)

\* chart.colors.map(ref => ({ ref, deltaE: deltaE76(sampledLab, refLab) }))
MapDistances(colors, sampledLab) ==
    [i \in 1..Len(colors) |->
        [ref    |-> colors[i],
         deltaE |-> deltaE76(sampledLab,
                             rgbToLab(colors[i].r, colors[i].g, colors[i].b))]]

\* C12 mutant: the comparator turned round, (a, b) => b.deltaE - a.deltaE
CompareDeltaEDescending(a, b) == b.deltaE - a.deltaE

\* the comparator (a, b) => a.deltaE - b.deltaE
CompareDeltaE(a, b) == a.deltaE - b.deltaE

\* Array.prototype.sort is stable: m goes before the first element that the
\* comparator puts after it
RECURSIVE InsertByDeltaE(_, _)
InsertByDeltaE(m, sorted) ==
    IF sorted = <<>> THEN <<m>>
    ELSE IF CompareDeltaE(m, Head(sorted)) < 0 THEN <<m>> \o sorted
    ELSE <<Head(sorted)>> \o InsertByDeltaE(m, Tail(sorted))

RECURSIVE SortByDeltaE(_)
SortByDeltaE(s) ==
    IF s = <<>> THEN <<>>
    ELSE InsertByDeltaE(s[Len(s)], SortByDeltaE(SubSeq(s, 1, Len(s) - 1)))

\* Math.max(deltaE, 0.001) in thousandths, for deltaE in hundredths
AtLeastThousandth(deltaE) == IF deltaE * 10 < 1 THEN 1 ELSE deltaE * 10

\* w1 = 1 / c1, w2 = 1 / c2, (v1 * w1 + v2 * w2) / (w1 + w2): the fraction
\* with both sides multiplied by c1 * c2, so that it is computed exactly
WeightedValue(v1, c1, v2, c2) ==
    RDiv(RAdd(RMul(v1, Num(c2)), RMul(v2, Num(c1))), Num(c1 + c2))

\* C13 mutant: the first comparison turned round, m1.deltaE > 10 ? 'high' : ...
ConfidenceInverted(deltaE) ==
    IF deltaE > 1000 THEN "high" ELSE IF deltaE < 2500 THEN "medium" ELSE "low"

\* m1.deltaE < 10 ? 'high' : m1.deltaE < 25 ? 'medium' : 'low', deltaE in hundredths
Confidence(deltaE) ==
    IF deltaE < 1000 THEN "high" ELSE IF deltaE < 2500 THEN "medium" ELSE "low"

\* Math.round(value * 10) / 10
RoundToTenth(value) == Rat(MathRound(RMul(value, Num(10))), 10)

\* C23 mutant: the direct return taken for every distance below 10
FromNearestBelowTen(m1, m2) ==
    IF m1.deltaE < 1000
    THEN [value |-> m1.ref.value, deltaE |-> m1.deltaE, confidence |-> "high"]
    ELSE [value |-> RoundToTenth(WeightedValue(m1.ref.value, AtLeastThousandth(m1.deltaE),
                                               m2.ref.value, AtLeastThousandth(m2.deltaE))),
          deltaE |-> m1.deltaE,
          confidence |-> Confidence(m1.deltaE)]

\* from const m1 = matches[0] to the return, for the sorted matches
FromNearest(m1, m2) ==
    IF m1.deltaE < 100
    THEN [value |-> m1.ref.value, deltaE |-> m1.deltaE, confidence |-> "high"]
    ELSE [value |-> RoundToTenth(WeightedValue(m1.ref.value, AtLeastThousandth(m1.deltaE),
                                               m2.ref.value, AtLeastThousandth(m2.deltaE))),
          deltaE |-> m1.deltaE,
          confidence |-> Confidence(m1.deltaE)]

\* matches[0] and matches[1]
FirstTwo(matches) == FromNearest(matches[1], matches[2])

matchColorInterpolated(sampledR, sampledG, sampledB, key) ==
    IF ChartOf(key) = null THEN null
    ELSE FirstTwo(SortByDeltaE(MapDistances(ChartOf(key).colors,
                                            rgbToLab(sampledR, sampledG, sampledB))))

\* the calls of deltaE76 made by one call of either matcher: none when the
\* chart is unknown (the return comes first), else one per calibration point
DistancesComputed(key) ==
    IF ChartOf(key) = null THEN 0 ELSE Len(ChartOf(key).colors)

----------------------------------------------------------------------------
(* extractAverageColor *)

Max(a, b) == IF a > b THEN a ELSE b
Min(a, b) == IF a < b THEN a ELSE b

\* Math.max(0, Math.round(x - sampleRadius)), for x and for y
ClampOrigin(x, radius) == Max(0, MathRound(RSub(x, Num(radius))))

\* C16 mutant: the size is not clamped to what is left of the canvas
ClampSizeNone(size, extent, origin) == size

\* Math.min(size, canvas.width - sx), for the width and for the height
ClampSize(size, extent, origin) == Min(size, extent - origin)

\* sx, sy, sw, sh
SampleRect(cv, x, y, radius) ==
    LET size == radius * 2
        sx   == ClampOrigin(x, radius)
        sy   == ClampOrigin(y, radius)
    IN  [sx |-> sx, sy |-> sy,
         sw |-> ClampSize(size, cv.width, sx),
         sh |-> ClampSize(size, cv.height, sy)]

\* if (sw <= 0 || sh <= 0) return null
IsEmptyRect(rect) == rect.sw <= 0 \/ rect.sh <= 0

\* ctx.getImageData(sx, sy, sw, sh).data, one <<r, g, b>> per pixel, row by
\* row; a pixel outside the canvas is transparent black
getImageData(cv, rect) ==
    [i \in 1..(rect.sw * rect.sh) |->
        LET col == rect.sx + ((i - 1) % rect.sw)
            row == rect.sy + ((i - 1) \div rect.sw)
        IN  IF col \in 0..(cv.width - 1) /\ row \in 0..(cv.height - 1)
            THEN cv.pixels[<<col, row>>]
            ELSE <<0, 0, 0>>]

\* the loop over data: the total of one channel from the i-th pixel on
RECURSIVE Total(_, _, _)
Total(data, channel, i) ==
    IF i > Len(data) THEN 0 ELSE data[i][channel] + Total(data, channel, i + 1)

extractAverageColor(cv, x, y, radius) ==
    LET rect == SampleRect(cv, x, y, radius)
    IN  IF IsEmptyRect(rect) THEN null
        ELSE LET data       == <<>> \o getImageData(cv, rect)
                 pixelCount == rect.sw * rect.sh
             IN  [r |-> MathRound(Rat(Total(data, 1, 1), pixelCount)),
                  g |-> MathRound(Rat(Total(data, 2, 1), pixelCount)),
                  b |-> MathRound(Rat(Total(data, 3, 1), pixelCount))]

----------------------------------------------------------------------------
(* The planner called on a panel: calculateCorrections(readings, volume, type) *)

\* number of different volumes tried
MaxVolumeUnits == 1

\* volumes in gallons: 400 (a typical hot tub) and its multiples
Volumes == {Num(400 * i) : i \in 1..MaxVolumeUnits}

\* 'chlorine', 'bromine', and a value that is neither
SanitizerTypes == {"chlorine", "bromine", "salt"}

\* Readings tried for each key, in tenths: one below the ideal range, both
\* ends of the range, one above it; for hardness also 200 inside the range.
ReadingTenths ==
    [ totalAlkalinity |-> {600, 800, 1200, 1500},
      pH              |-> {68, 72, 78, 80},
      totalHardness   |-> {1000, 1750, 2000, 2500, 4000},
      freeChlorine    |-> {20, 30, 50, 100},
      bromine         |-> {20, 40, 60, 100},
      cyanuricAcid    |-> {200, 300, 500, 1000},
      totalChlorine   |-> {10} ]

ReadingChoices(k) == {undefined} \cup {Rat(t, 10) : t \in ReadingTenths[k]}

\* a panel: each key absent or one of its readings
Panels ==
    {[totalAlkalinity |-> ta, pH |-> ph, totalHardness |-> th, freeChlorine |-> fc,
      bromine |-> br, cyanuricAcid |-> cya, totalChlorine |-> tc] :
        ta \in ReadingChoices("totalAlkalinity"), ph \in ReadingChoices("pH"),
        th \in ReadingChoices("totalHardness"), fc \in ReadingChoices("freeChlorine"),
        br \in ReadingChoices("bromine"), cya \in ReadingChoices("cyanuricAcid"),
        tc \in ReadingChoices("totalChlorine")}

\* nothing has been asked of the colour matcher
MatcherIdle ==
    /\ chartKey = ""
    /\ sampled = <<0, 0, 0>>
    /\ matchResult = null
    /\ interpolated = null
    /\ distances = 0

\* nothing has been asked of extractAverageColor
ExtractorIdle ==
    /\ canvas = [width |-> 0, height |-> 0, pixels |-> <<>>]
    /\ tap = <<Num(0), Num(0)>>
    /\ sampleRadius = 0
    /\ region = null
    /\ average = null

\* no script has been built
SpeakerIdle == speech = <<>>

\* no calendar has been generated
CalendarIdle == startTime = null /\ now = 0 /\ events = <<>>

\* the app is not running: no page, an empty localStorage
AppIdle ==
    /\ screen = "" /\ stateVolume = Num(0) /\ volumeUnit = "" /\ history = <<>>
    /\ storage = <<>> /\ analysisStep = 0 /\ analysisParams = <<>>
    /\ view = [closure |-> 0, shown |-> FALSE, confirm |-> 0, retry |-> 0]
    /\ closures = <<>> /\ timers = <<>> /\ loads = 0 /\ saved = 0

Init ==
    /\ pc = "call"
    /\ readings \in Panels
    /\ volumeGallons \in Volumes
    /\ sanitizerType \in SanitizerTypes
    /\ corrections = <<>>
    /\ MatcherIdle
    /\ ExtractorIdle
    /\ SpeakerIdle
    /\ CalendarIdle
    /\ AppIdle

Calculate ==
    /\ pc = "call"
    /\ corrections' = calculateCorrections(readings, volumeGallons, sanitizerType)
    /\ pc' = "returned"
    /\ UNCHANGED <<readings, volumeGallons, sanitizerType, matcherVars, extractorVars,
                   speakerVars, calendarVars, appVars>>

Next == Calculate

Spec == Init /\ [][Next]_vars

\* no panel has been given to the planner
PlannerIdle ==
    /\ readings = [k \in Keys |-> undefined]
    /\ volumeGallons = Num(400)
    /\ sanitizerType = "chlorine"
    /\ corrections = <<>>

----------------------------------------------------------------------------
(* The planner called on one panel for several volumes *)

\* number of different volumes tried
MaxDoseVolumes == 4

\* volumes in gallons: 250 and its multiples
DoseVolumes == {Num(250 * i) : i \in 1..MaxDoseVolumes}

\* Readings tried for each key, in tenths: two below the ideal range (one
\* of them just below it) and one above it
DoseReadingTenths ==
    [ totalAlkalinity |-> {600, 795, 1500},
      pH              |-> {68, 71, 82},
      totalHardness   |-> {1000, 1749, 4000},
      freeChlorine    |-> {0, 29, 100},
      bromine         |-> {5, 39, 100},
      cyanuricAcid    |-> {0, 299, 1000} ]

DoseChoices(k) == {undefined} \cup {Rat(t, 10) : t \in DoseReadingTenths[k]}

DosePanels ==
    {[totalAlkalinity |-> ta, pH |-> ph, totalHardness |-> th, freeChlorine |-> fc,
      bromine |-> br, cyanuricAcid |-> cya, totalChlorine |-> undefined] :
        ta \in DoseChoices("totalAlkalinity"), ph \in DoseChoices("pH"),
        th \in DoseChoices("totalHardness"), fc \in DoseChoices("freeChlorine"),
        br \in DoseChoices("bromine"), cya \in DoseChoices("cyanuricAcid")}

InitDose ==
    /\ pc = "call"
    /\ readings \in DosePanels
    /\ volumeGallons \in DoseVolumes
    /\ sanitizerType \in SanitizerTypes
    /\ corrections = <<>>
    /\ MatcherIdle
    /\ ExtractorIdle
    /\ SpeakerIdle
    /\ CalendarIdle
    /\ AppIdle

SpecDose == InitDose /\ [][Next]_vars

----------------------------------------------------------------------------
(* The planner called on a panel with a single reading, near and far from *)
(* the ends of its ideal range                                            *)

\* number of different volumes tried
MaxEdgeVolumes == 3

\* volumes in gallons: 250 and its multiples
EdgeVolumes == {Num(250 * i) : i \in 1..MaxEdgeVolumes}

\* Readings tried for each key, in tenths: the ends of the chart, and
\* readings just outside the ideal range
EdgeReadingTenths ==
    [ totalAlkalinity |-> {0, 400, 795, 799, 1201, 1210, 1500, 2400},
      pH              |-> {64, 71, 79, 82, 84},
      totalHardness   |-> {0, 1000, 1749, 2501, 2510, 2520, 2530, 4000, 8000},
      freeChlorine    |-> {0, 29, 51, 60, 100},
      bromine         |-> {0, 39, 61, 100, 200},
      cyanuricAcid    |-> {0, 299, 501, 503, 510, 1000, 3000} ]

\* a panel with exactly one reading
InitEdge ==
    /\ pc = "call"
    /\ \E k \in DOMAIN EdgeReadingTenths : \E t \in EdgeReadingTenths[k] :
          readings = [[key \in Keys |-> undefined] EXCEPT ![k] = Rat(t, 10)]
    /\ volumeGallons \in EdgeVolumes
    /\ sanitizerType \in SanitizerTypes
    /\ corrections = <<>>
    /\ MatcherIdle
    /\ ExtractorIdle
    /\ SpeakerIdle
    /\ CalendarIdle
    /\ AppIdle

SpecEdge == InitEdge /\ [][Next]_vars

----------------------------------------------------------------------------
(* The plan and the spoken summary made of the same panel, as renderResults *)
(* makes them: calculateCorrections(readings, gallons, sanitizerType) and  *)
(* buildSpeechScript(readings, sanitizerType)                              *)

\* Readings tried for each key, in tenths: one below, one within (an end of
\* the ideal range) and one above the ideal range
SummaryReadingTenths ==
    [ totalAlkalinity |-> {400, 1200, 1800},
      pH              |-> {68, 72, 84},
      totalHardness   |-> {1000, 2500, 4000},
      freeChlorine    |-> {10, 30, 100},
      bromine         |-> {20, 60, 100},
      cyanuricAcid    |-> {0, 400, 1000} ]

SummaryChoices(k) == {undefined} \cup {Rat(t, 10) : t \in SummaryReadingTenths[k]}

\* a panel: each key absent or one of its readings, totalChlorine absent
SummaryPanels ==
    {[totalAlkalinity |-> ta, pH |-> ph, totalHardness |-> th, freeChlorine |-> fc,
      bromine |-> br, cyanuricAcid |-> cya, totalChlorine |-> undefined] :
        ta \in SummaryChoices("totalAlkalinity"), ph \in SummaryChoices("pH"),
        th \in SummaryChoices("totalHardness"), fc \in SummaryChoices("freeChlorine"),
        br \in SummaryChoices("bromine"), cya \in SummaryChoices("cyanuricAcid")}

InitResults ==
    /\ pc = "results"
    /\ readings \in SummaryPanels
    /\ volumeGallons = Num(400)
    /\ sanitizerType \in SanitizerTypes
    /\ corrections = <<>>
    /\ MatcherIdle
    /\ ExtractorIdle
    /\ SpeakerIdle
    /\ CalendarIdle
    /\ AppIdle

\* state.corrections = calculateCorrections(...) and, with speech
\* available, speak(buildSpeechScript(...))
PlanAndSpeak ==
    /\ pc = "results"
    /\ corrections' = calculateCorrections(readings, volumeGallons, sanitizerType)
    /\ speech' = buildSpeechScript(readings, sanitizerType)
    /\ pc' = "rendered"
    /\ UNCHANGED <<readings, volumeGallons, sanitizerType, matcherVars, extractorVars,
                   calendarVars, appVars>>

NextResults == PlanAndSpeak

SpecResults == InitResults /\ [][NextResults]_vars

----------------------------------------------------------------------------
(* The matcher called on a sampled colour: matchColor(r, g, b, chartKey) *)

\* how far a sample is moved off a calibration colour, per channel
MaxShift == 2

\* the chart keys asked for: every chart, and a key that names none
ChartKeys == DOMAIN COLOR_CHARTS \cup {"nitrate"}

CalibrationColors ==
    UNION {{<<c.r, c.g, c.b>> : c \in {COLOR_CHARTS[k].colors[i] :
                                          i \in 1..Len(COLOR_CHARTS[k].colors)}} :
           k \in DOMAIN COLOR_CHARTS}

Clip(c) == IF c < 0 THEN 0 ELSE IF c > 255 THEN 255 ELSE c

\* the colours half way between two neighbouring points of a chart
Midpoints ==
    UNION {{<<(COLOR_CHARTS[k].colors[i].r + COLOR_CHARTS[k].colors[i + 1].r) \div 2,
              (COLOR_CHARTS[k].colors[i].g + COLOR_CHARTS[k].colors[i + 1].g) \div 2,
              (COLOR_CHARTS[k].colors[i].b + COLOR_CHARTS[k].colors[i + 1].b) \div 2>> :
                i \in 1..(Len(COLOR_CHARTS[k].colors) - 1)} :
           k \in DOMAIN COLOR_CHARTS}

\* colours far from every chart
FarColors ==
    {<<0, 0, 0>>, <<255, 255, 255>>, <<128, 128, 128>>,
     <<255, 0, 0>>, <<0, 255, 0>>, <<0, 0, 255>>}

\* the calibration colours, each also moved along one channel, the colours
\* between them, and the colours far from every chart
Samples ==
    UNION {{<<Clip(c[1] + s), c[2], c[3]>>, <<c[1], Clip(c[2] + s), c[3]>>,
            <<c[1], c[2], Clip(c[3] + s)>>} :
           c \in CalibrationColors, s \in (-MaxShift)..MaxShift}
      \cup Midpoints \cup FarColors

InitMatch ==
    /\ pc = "match"
    /\ chartKey \in ChartKeys
    /\ sampled \in Samples
    /\ matchResult = null
    /\ interpolated = null
    /\ distances = 0
    /\ PlannerIdle
    /\ ExtractorIdle
    /\ SpeakerIdle
    /\ CalendarIdle
    /\ AppIdle

\* one of the two matchers is called on the sample
MatchColor ==
    /\ pc = "match"
    /\ matchResult' = matchColor(sampled[1], sampled[2], sampled[3], chartKey)
    /\ distances' = distances + DistancesComputed(chartKey)
    /\ pc' = "matched"
    /\ UNCHANGED <<chartKey, sampled, interpolated, plannerVars, extractorVars,
                   speakerVars, calendarVars, appVars>>

MatchColorInterpolated ==
    /\ pc = "match"
    /\ interpolated' = matchColorInterpolated(sampled[1], sampled[2], sampled[3], chartKey)
    /\ distances' = distances + DistancesComputed(chartKey)
    /\ pc' = "interpolated"
    /\ UNCHANGED <<chartKey, sampled, matchResult, plannerVars, extractorVars,
                   speakerVars, calendarVars, appVars>>

NextMatch == MatchColor \/ MatchColorInterpolated

SpecMatch == InitMatch /\ [][NextMatch]_vars

----------------------------------------------------------------------------
(* extractAverageColor called on a canvas: extractAverageColor(canvas, ctx, x, y, r) *)

\* the largest width and height of a canvas
MaxSide == 3

\* the largest sampleRadius
MaxRadius == 2

\* two pictures: a ramp of colours, and black and white squares
Pictures ==
    {[col \in 0..(MaxSide + 1), row \in 0..(MaxSide + 1) |->
         <<(col * 90 + row * 35) % 256, (col * 20 + row * 110) % 256,
           (255 - col * 70 - row * 15) % 256>>],
     [col \in 0..(MaxSide + 1), row \in 0..(MaxSide + 1) |->
         IF (col + row) % 2 = 0 THEN <<0, 0, 0>> ELSE <<255, 255, 255>>]}

\* a canvas of the given size showing the top left corner of a picture
Canvas(width, height, picture) ==
    [width |-> width, height |-> height,
     pixels |-> [p \in (0..(width - 1)) \X (0..(height - 1)) |-> picture[p]]]

Canvases ==
    {Canvas(w, h, picture) : w \in 1..MaxSide, h \in 1..MaxSide, picture \in Pictures}

\* coordinates in halves of a pixel, from left of (above) the canvas to right
\* of (below) it
Coordinates == {Rat(h, 2) : h \in (-2)..(2 * (MaxSide + MaxRadius) + 1)}

InitExtract ==
    /\ pc = "extract"
    /\ canvas \in Canvases
    /\ tap \in Coordinates \X Coordinates
    /\ sampleRadius \in 0..MaxRadius
    /\ region = null
    /\ average = null
    /\ PlannerIdle
    /\ MatcherIdle
    /\ SpeakerIdle
    /\ CalendarIdle
    /\ AppIdle

ExtractAverageColor ==
    /\ pc = "extract"
    /\ LET rect == SampleRect(canvas, tap[1], tap[2], sampleRadius)
       IN  region' = IF IsEmptyRect(rect) THEN null ELSE rect
    /\ average' = extractAverageColor(canvas, tap[1], tap[2], sampleRadius)
    /\ pc' = "extracted"
    /\ UNCHANGED <<canvas, tap, sampleRadius, plannerVars, matcherVars,
                   speakerVars, calendarVars, appVars>>

NextExtract == ExtractAverageColor

SpecExtract == InitExtract /\ [][NextExtract]_vars

----------------------------------------------------------------------------
(* The script built for a panel: buildSpeechScript(readings, sanitizerType) *)

InitSpeech ==
    /\ pc = "speak"
    /\ readings \in Panels
    /\ volumeGallons = Num(400)
    /\ sanitizerType \in SanitizerTypes
    /\ corrections = <<>>
    /\ speech = <<>>
    /\ MatcherIdle
    /\ ExtractorIdle
    /\ CalendarIdle
    /\ AppIdle

BuildSpeechScript ==
    /\ pc = "speak"
    /\ speech' = buildSpeechScript(readings, sanitizerType)
    /\ pc' = "spoken"
    /\ UNCHANGED <<plannerVars, matcherVars, extractorVars, calendarVars, appVars>>

NextSpeech == BuildSpeechScript

SpecSpeech == InitSpeech /\ [][NextSpeech]_vars

----------------------------------------------------------------------------
(* The calendar of a plan: generateICS(corrections, startTime) *)

\* panels with each reading absent, low or high
PlanPanels ==
    {[totalAlkalinity |-> ta, pH |-> ph, totalHardness |-> th, freeChlorine |-> fc,
      bromine |-> br, cyanuricAcid |-> cya, totalChlorine |-> undefined] :
        ta \in {undefined, Num(60), Num(150)}, ph \in {undefined, Rat(68, 10), Num(8)},
        th \in {undefined, Num(100), Num(400)}, fc \in {undefined, Num(2), Num(10)},
        br \in {undefined, Num(2), Num(10)}, cya \in {undefined, Num(20), Num(100)}}

\* the plans the planner makes for them, the empty plan among them
Plans ==
    {calculateCorrections(rd, Num(400), san) : rd \in PlanPanels, san \in SanitizerTypes}

\* no start time, or a time of day: midnight, 08:30:15.500, 23:50
StartTimes == {null, [time |-> 0], [time |-> 30615500], [time |-> 85800000]}

\* Date.now(): 09:00 and 23:45:30
Clocks == {32400000, 85530000}

InitICS ==
    /\ pc = "generate"
    /\ corrections \in Plans
    /\ startTime \in StartTimes
    /\ now \in Clocks
    /\ events = <<>>
    /\ readings = [k \in Keys |-> undefined]
    /\ volumeGallons = Num(400)
    /\ sanitizerType = "chlorine"
    /\ MatcherIdle
    /\ ExtractorIdle
    /\ SpeakerIdle
    /\ AppIdle

GenerateICS ==
    /\ pc = "generate"
    /\ events' = generateICS(corrections, startTime, now)
    /\ pc' = "generated"
    /\ UNCHANGED <<plannerVars, matcherVars, extractorVars, speakerVars, startTime, now,
                   appVars>>

NextICS == GenerateICS

SpecICS == InitICS /\ [][NextICS]_vars

----------------------------------------------------------------------------
(* The app: state, localStorage, render and the handlers of its screens.  *)
(* readings, sanitizerType and corrections are state.readings (a key      *)
(* without a reading maps to undefined), state.sanitizerType and          *)
(* state.corrections; volumeGallons is the volume given to the last call  *)
(* of calculateCorrections, undefined before the first call.              *)

\* what parseFloat gives for a text that is no number: every comparison
\* with it is false
NaN == <<0, 0>>

\* a || b for numbers
OrElse(a, b) == IF a = NaN \/ a = Num(0) THEN b ELSE a

\* the text that localStorage keeps for a number or a string
String(x) == [text |-> x]

\* parseFloat of an item of localStorage, null when the item was never set
parseFloat(item) == IF item = null THEN NaN ELSE item.text

\* the order in which the wizard gives an object its keys
KeyOrder ==
    <<"freeChlorine", "bromine", "pH", "totalAlkalinity", "totalHardness",
      "cyanuricAcid", "totalChlorine">>

\* { ...readings }: the keys that have a reading
Spread(rd) == [k \in {key \in Keys : rd[key] # undefined} |-> rd[k]]

\* the entry pushed by Save to History
Entry(date, rd, vol, unit, san) ==
    [date |-> date, readings |-> Spread(rd), volume |-> vol, volumeUnit |-> unit,
     sanitizerType |-> san]

\* JSON.stringify of an object with number values: its properties in order
Properties(obj) ==
    LET keys == SelectSeq(KeyOrder, LAMBDA k : k \in DOMAIN obj)
    IN  [i \in 1..Len(keys) |-> <<keys[i], obj[keys[i]]>>]

\* JSON.parse of such properties
ObjectOf(props) ==
    [k \in {props[i][1] : i \in 1..Len(props)} |->
        props[CHOOSE i \in 1..Len(props) : props[i][1] = k][2]]

JSONstringify(h) ==
    [text |-> [i \in 1..Len(h) |-> [h[i] EXCEPT !.readings = Properties(h[i].readings)]]]

JSONparse(item) ==
    [i \in 1..Len(item.text) |->
        [item.text[i] EXCEPT !.readings = ObjectOf(item.text[i].readings)]]

\* localStorage.clear()
EmptyStorage ==
    [sparobot_volume |-> null, sparobot_volumeUnit |-> null,
     sparobot_sanitizer |-> null, sparobot_history |-> null]

\* const state = { ... }: the state that a page load makes of localStorage
Construct(st) ==
    [volume        |-> OrElse(parseFloat(st.sparobot_volume), Num(0)),
     volumeUnit    |-> IF st.sparobot_volumeUnit = null THEN "gallons"
                       ELSE st.sparobot_volumeUnit.text,
     sanitizerType |-> IF st.sparobot_sanitizer = null THEN "chlorine"
                       ELSE st.sparobot_sanitizer.text,
     history       |-> IF st.sparobot_history = null THEN <<>>
                       ELSE JSONparse(st.sparobot_history)]

\* saveSettings
saveSettings(st, vol, unit, san) ==
    [st EXCEPT !.sparobot_volume = String(vol), !.sparobot_volumeUnit = String(unit),
               !.sparobot_sanitizer = String(san)]

\* C30 mutant: the first 50 entries kept
CappedFromStart(h) == IF Len(h) > 50 THEN SubSeq(h, 1, 50) ELSE h

\* saveHistory: if (state.history.length > 50) state.history = state.history.slice(-50)
Capped(h) == IF Len(h) > 50 THEN SubSeq(h, Len(h) - 49, Len(h)) ELSE h

getVolumeInGallons(vol, unit) ==
    IF unit = "liters" THEN RMul(vol, Rat(264172, 1000000)) ELSE vol

getAnalysisParams(san) ==
    IF san = "bromine" THEN <<"bromine", "pH", "totalAlkalinity", "totalHardness">>
    ELSE <<"freeChlorine", "pH", "totalAlkalinity", "totalHardness", "cyanuricAcid">>

\* C29 mutant: render without its first statement
GateOpen(scr, vol) == scr

\* render: if (state.volume <= 0 && state.screen !== 'settings') state.screen = 'settings'
Gate(scr, vol) ==
    IF (RLess(vol, Num(0)) \/ vol = Num(0)) /\ scr # "settings" THEN "settings" ELSE scr

\* the screen that render ends on: renderAnalyze hands over to the results
\* when step >= params.length, by another call of render
FinalScreen(scr, vol, step, params) ==
    IF Gate(scr, vol) = "analyze" /\ step >= Len(params)
    THEN Gate("results", vol)
    ELSE Gate(scr, vol)

\* no analyze screen is shown
NoView == [closure |-> 0, shown |-> FALSE, confirm |-> 0, retry |-> 0]

Range(seq) == {seq[i] : i \in 1..Len(seq)}

\* the least identifier that no queued callback holds
FreshId == CHOOSE i \in 1..(Len(timers) + 1) :
               i \notin Range(timers) /\ \A j \in 1..(i - 1) : j \in Range(timers)

\* the closures that something can still call
Live(cl, ids) == [i \in (ids \cap DOMAIN cl) |-> cl[i]]

\* params.every(k => readings[k] === undefined || getStatus(k, readings[k]) === 'ok')
allOk(params, rd) ==
    \A i \in 1..Len(params) :
        rd[params[i]] = undefined \/ getStatus(params[i], rd[params[i]]) = "ok"

----------------------------------------------------------------------------
(* The app running in a browser *)

\* how many callbacks of setTimeout may be waiting
MaxTimers == 2

\* how many chosen images may be loading
MaxLoads == 1

\* how many results are saved after a page load
MaxSaves == 3

\* the colour that a tap on the photo averages to
PhotoColors == {<<200, 150, 110>>}

\* matchColorInterpolated on each chart for each of these colours
Matches ==
    [k \in DOMAIN COLOR_CHARTS |->
        [c \in PhotoColors |-> matchColorInterpolated(c[1], c[2], c[3], k)]]

\* what the user may type as the volume: nothing, 0, -5 and 400
EnteredVolumes == {NaN, Num(0), Num(-5), Num(400)}
Units == {"gallons", "liters"}
Sanitizers == {"chlorine", "bromine"}

\* a history of n entries saved on earlier visits
OldHistory(n) ==
    [i \in 1..n |->
        Entry(i, [[k \in Keys |-> undefined] EXCEPT !["pH"] = Rat(72, 10)],
              Num(400), "gallons", "chlorine")]

\* what localStorage may hold when the page is loaded: nothing, or the
\* settings of an earlier visit, without a history or with one that is as
\* long as saveHistory lets it grow, or one entry shorter
Storages ==
    {EmptyStorage} \cup
    {[sparobot_volume |-> String(Num(400)), sparobot_volumeUnit |-> String(u),
      sparobot_sanitizer |-> String(s), sparobot_history |-> h] :
        u \in Units, s \in Sanitizers, h \in {null, JSONstringify(OldHistory(49)), JSONstringify(OldHistory(50))}}

\* render(), called with the state as the handler has left it
Render(scr, vol, unit, san, rd, step, params) ==
    LET final == FinalScreen(scr, vol, step, params) IN
    /\ final = "analyze" => Len(timers) < MaxTimers
    /\ screen' = final
    /\ IF final = "results"
       THEN /\ corrections' = calculateCorrections(rd, getVolumeInGallons(vol, unit), san)
            /\ volumeGallons' = getVolumeInGallons(vol, unit)
            /\ speech' = buildSpeechScript(rd, san)
       ELSE UNCHANGED <<corrections, volumeGallons, speech>>
    /\ IF final = "analyze"
       THEN /\ view' = [closure |-> FreshId, shown |-> FALSE, confirm |-> 0, retry |-> 0]
            /\ closures' =
                  [i \in Range(timers) \cup {FreshId} |->
                      IF i = FreshId
                      THEN [step |-> step, params |-> params, pendingMatch |-> null]
                      ELSE closures[i]]
            /\ timers' = Append(timers, FreshId)
       ELSE /\ view' = NoView
            /\ closures' = Live(closures, Range(timers))
            /\ timers' = timers

\* the variables of the other components
others == <<pc, matcherVars, extractorVars, calendarVars>>

InitApp ==
    /\ pc = "app"
    /\ storage \in Storages
    /\ stateVolume = Construct(storage).volume
    /\ volumeUnit = Construct(storage).volumeUnit
    /\ sanitizerType = Construct(storage).sanitizerType
    /\ history = Construct(storage).history
    /\ screen = Gate("home", stateVolume)
    /\ readings = [k \in Keys |-> undefined]
    /\ corrections = <<>>
    /\ volumeGallons = undefined
    /\ analysisStep = 0
    /\ analysisParams = <<>>
    /\ view = NoView
    /\ closures = <<>>
    /\ timers = <<>>
    /\ loads = 0
    /\ saved = 0
    /\ MatcherIdle
    /\ ExtractorIdle
    /\ SpeakerIdle
    /\ CalendarIdle

\* btn-history and btn-settings of the home screen
Open(scr) ==
    /\ pc = "app" /\ screen = "home"
    /\ Render(scr, stateVolume, volumeUnit, sanitizerType, readings, analysisStep,
              analysisParams)
    /\ UNCHANGED <<readings, sanitizerType, stateVolume, volumeUnit, history, storage,
                   analysisStep, analysisParams, loads, saved, others>>

OpenHistory == Open("history")
OpenSettings == Open("settings")

\* the back buttons of history, settings (not shown before a volume is set),
\* results and corrections, and New Scan
GoHome ==
    /\ pc = "app"
    /\ \/ screen \in {"history", "results", "corrections"}
       \/ screen = "settings" /\ RLess(Num(0), stateVolume)
    /\ Render("home", stateVolume, volumeUnit, sanitizerType, readings, analysisStep,
              analysisParams)
    /\ UNCHANGED <<readings, sanitizerType, stateVolume, volumeUnit, history, storage,
                   analysisStep, analysisParams, loads, saved, others>>

\* handleImageCapture up to reader.readAsDataURL(file)
ChooseFile ==
    /\ pc = "app" /\ screen = "home"
    /\ loads < MaxLoads
    /\ loads' = loads + 1
    /\ UNCHANGED <<plannerVars, speakerVars, screen, stateVolume, volumeUnit, history,
                   storage, analysisStep, analysisParams, view, closures, timers, saved,
                   others>>

\* img.onload
ImageLoaded ==
    /\ pc = "app" /\ loads > 0
    /\ loads' = loads - 1
    /\ readings' = [k \in Keys |-> undefined]
    /\ analysisStep' = 0
    /\ analysisParams' = getAnalysisParams(sanitizerType)
    /\ Render("analyze", stateVolume, volumeUnit, sanitizerType, readings', 0,
              analysisParams')
    /\ UNCHANGED <<sanitizerType, stateVolume, volumeUnit, history, storage, saved, others>>

\* canvas.onclick: a tap inside the canvas always averages a region that is
\* not empty, and the chart of paramKey exists
Tap ==
    /\ pc = "app" /\ screen = "analyze"
    /\ \E c \in PhotoColors :
          LET mine == closures[view.closure]
              paramKey == mine.params[mine.step + 1]
          IN  closures' = [closures EXCEPT ![view.closure].pendingMatch =
                              [color |-> c, match |-> Matches[paramKey][c]]]
    /\ view' = [view EXCEPT !.shown = TRUE]
    /\ UNCHANGED <<plannerVars, speakerVars, screen, stateVolume, volumeUnit, history,
                   storage, analysisStep, analysisParams, timers, loads, saved, others>>

\* retryBtn.onclick, of the call of renderAnalyze that attached it; the
\* button can be clicked while the sampled result is shown
Retry ==
    /\ pc = "app" /\ screen = "analyze"
    /\ view.shown /\ view.retry # 0
    /\ closures' = [closures EXCEPT ![view.retry].pendingMatch = null]
    /\ view' = [view EXCEPT !.shown = FALSE]
    /\ UNCHANGED <<plannerVars, speakerVars, screen, stateVolume, volumeUnit, history,
                   storage, analysisStep, analysisParams, timers, loads, saved, others>>

\* confirmBtn.onclick, of the call of renderAnalyze that attached it
Confirm ==
    /\ pc = "app" /\ screen = "analyze"
    /\ view.shown /\ view.confirm # 0
    /\ LET its == closures[view.confirm]
           paramKey == its.params[its.step + 1]
       IN  IF its.pendingMatch = null
           THEN UNCHANGED <<plannerVars, speakerVars, screen, analysisStep, view,
                            closures, timers>>
           ELSE /\ readings' = [readings EXCEPT ![paramKey] = its.pendingMatch.match.value]
                /\ analysisStep' = its.step + 1
                /\ Render(screen, stateVolume, volumeUnit, sanitizerType, readings',
                          analysisStep', analysisParams)
                /\ UNCHANGED sanitizerType
    /\ UNCHANGED <<stateVolume, volumeUnit, history, storage, analysisParams, loads,
                   saved, others>>

\* btn-back-analyze
Back ==
    /\ pc = "app" /\ screen = "analyze"
    /\ LET mine == closures[view.closure] IN
       IF mine.step > 0
       THEN /\ analysisStep' = mine.step - 1
            /\ readings' = [readings EXCEPT ![mine.params[mine.step]] = undefined]
            /\ Render(screen, stateVolume, volumeUnit, sanitizerType, readings',
                      analysisStep', analysisParams)
       ELSE /\ Render("home", stateVolume, volumeUnit, sanitizerType, readings,
                      analysisStep, analysisParams)
            /\ UNCHANGED <<readings, analysisStep>>
    /\ UNCHANGED <<sanitizerType, stateVolume, volumeUnit, history, storage,
                   analysisParams, loads, saved, others>>

\* the callback of setTimeout(..., 0) in renderAnalyze: it gives the buttons
\* that the page has now the handlers of the call that queued it
TimerFires ==
    /\ pc = "app" /\ timers # <<>>
    /\ timers' = Tail(timers)
    /\ view' = IF screen = "analyze"
               THEN [view EXCEPT !.confirm = Head(timers), !.retry = Head(timers)]
               ELSE view
    /\ closures' = Live(closures, Range(timers') \cup {view'.closure, view'.confirm})
    /\ UNCHANGED <<plannerVars, speakerVars, screen, stateVolume, volumeUnit, history,
                   storage, analysisStep, analysisParams, loads, saved, others>>

\* btn-corrections, shown unless all is ok
ViewPlan ==
    /\ pc = "app" /\ screen = "results"
    /\ ~allOk(analysisParams, readings)
    /\ Render("corrections", stateVolume, volumeUnit, sanitizerType, readings,
              analysisStep, analysisParams)
    /\ UNCHANGED <<readings, sanitizerType, stateVolume, volumeUnit, history, storage,
                   analysisStep, analysisParams, loads, saved, others>>

\* btn-back-corr
BackToResults ==
    /\ pc = "app" /\ screen = "corrections"
    /\ Render("results", stateVolume, volumeUnit, sanitizerType, readings,
              analysisStep, analysisParams)
    /\ UNCHANGED <<readings, sanitizerType, stateVolume, volumeUnit, history, storage,
                   analysisStep, analysisParams, loads, saved, others>>

\* the date of the next entry: time is counted in saved entries
NextDate == IF history = <<>> THEN 1 ELSE history[Len(history)].date + 1

\* btn-save-results
SaveToHistory ==
    /\ pc = "app" /\ screen = "results"
    /\ saved < MaxSaves
    /\ saved' = saved + 1
    /\ history' = Capped(Append(history, Entry(NextDate, readings, stateVolume,
                                               volumeUnit, sanitizerType)))
    /\ storage' = [storage EXCEPT !.sparobot_history = JSONstringify(history')]
    /\ UNCHANGED <<plannerVars, speakerVars, screen, stateVolume, volumeUnit,
                   analysisStep, analysisParams, view, closures, timers, loads, others>>

\* btn-save-settings with the entered volume, unit and sanitizer
SaveSettingsWith(vol, unit, san) ==
    /\ pc = "app" /\ screen = "settings"
    /\ IF (vol = NaN \/ vol = Num(0)) \/ (RLess(vol, Num(0)) \/ vol = Num(0))
       THEN UNCHANGED <<plannerVars, speakerVars, screen, stateVolume, volumeUnit,
                        storage, view, closures, timers>>
       ELSE /\ stateVolume' = vol
            /\ volumeUnit' = unit
            /\ sanitizerType' = san
            /\ storage' = saveSettings(storage, vol, unit, san)
            /\ Render("home", vol, unit, san, readings, analysisStep, analysisParams)
            /\ UNCHANGED readings
    /\ UNCHANGED <<history, analysisStep, analysisParams, loads, saved, others>>

SaveSettings ==
    \E vol \in EnteredVolumes, unit \in Units, san \in Sanitizers :
        SaveSettingsWith(vol, unit, san)

\* btn-clear-history, confirmed
ClearHistory ==
    /\ pc = "app" /\ screen = "settings" /\ RLess(Num(0), stateVolume)
    /\ history' = Capped(<<>>)
    /\ storage' = [storage EXCEPT !.sparobot_history = JSONstringify(history')]
    /\ UNCHANGED <<plannerVars, speakerVars, screen, stateVolume, volumeUnit,
                   analysisStep, analysisParams, view, closures, timers, loads, saved,
                   others>>

\* btn-reset-all, confirmed: localStorage.clear() and location.reload()
ResetAll ==
    /\ pc = "app" /\ screen = "settings" /\ RLess(Num(0), stateVolume)
    /\ storage' = EmptyStorage
    /\ stateVolume' = Construct(EmptyStorage).volume
    /\ volumeUnit' = Construct(EmptyStorage).volumeUnit
    /\ sanitizerType' = Construct(EmptyStorage).sanitizerType
    /\ history' = Construct(EmptyStorage).history
    /\ screen' = Gate("home", stateVolume')
    /\ readings' = [k \in Keys |-> undefined]
    /\ corrections' = <<>>
    /\ volumeGallons' = undefined
    /\ speech' = <<>>
    /\ analysisStep' = 0
    /\ analysisParams' = <<>>
    /\ view' = NoView
    /\ closures' = <<>>
    /\ timers' = <<>>
    /\ loads' = 0
    /\ saved' = 0
    /\ UNCHANGED others

\* Navigation, settings, capture and analysis, all but the handlers of the
\* history.  Here a callback of setTimeout(..., 0) runs before the next
\* click is handled.
NextApp ==
    \/ TimerFires
    \/ ImageLoaded
    \/ timers = <<>> /\ OpenHistory
    \/ timers = <<>> /\ OpenSettings
    \/ timers = <<>> /\ GoHome
    \/ timers = <<>> /\ ChooseFile
    \/ timers = <<>> /\ Tap
    \/ timers = <<>> /\ Retry
    \/ timers = <<>> /\ Confirm
    \/ timers = <<>> /\ Back
    \/ timers = <<>> /\ ViewPlan
    \/ timers = <<>> /\ BackToResults
    \/ timers = <<>> /\ SaveSettings
    \/ timers = <<>> /\ ResetAll

SpecApp == InitApp /\ [][NextApp]_vars

----------------------------------------------------------------------------
(* The analysis wizard: from the home screen of a spa that is set up, the *)
(* capture of an image and the handlers of the analyze screen; clicks and *)
(* the callbacks of setTimeout are taken in any order                     *)

InitWizard ==
    /\ InitApp
    /\ storage # EmptyStorage
    /\ storage.sparobot_history = null
    /\ volumeUnit = "gallons"

NextWizard ==
    \/ ChooseFile
    \/ ImageLoaded
    \/ Tap
    \/ Retry
    \/ Confirm
    \/ Back
    \/ TimerFires
    \/ GoHome

SpecWizard == InitWizard /\ [][NextWizard]_vars

----------------------------------------------------------------------------
(* The history: results are saved after an analysis, the history is       *)
(* cleared from the settings                                              *)

InitHistory ==
    /\ InitApp
    /\ storage # EmptyStorage
    /\ volumeUnit = "gallons"

NextHistory ==
    \/ SaveToHistory
    \/ ClearHistory
    \/ GoHome
    \/ OpenSettings
    \/ ChooseFile
    \/ ImageLoaded
    \/ Tap
    \/ Confirm
    \/ TimerFires

SpecHistory == InitHistory /\ [][NextHistory]_vars


----------------------------------------------------------------------------
(* Vocabulary of the properties of the planner *)

Returned == pc = "returned"

Orders(cs) == [i \in 1..Len(cs) |-> cs[i].order]
ParameterNames(cs) == [i \in 1..Len(cs) |-> cs[i].parameter]

IsPresent(k) == readings[k] # undefined
BelowIdeal(k) == IsPresent(k) /\ RLess(readings[k], PARAMETERS[k].idealMin)
AboveIdeal(k) == IsPresent(k) /\ RLess(PARAMETERS[k].idealMax, readings[k])
OutOfRange(k) == BelowIdeal(k) \/ AboveIdeal(k)
InIdealRange(k) == IsPresent(k) /\ ~OutOfRange(k)

HasCorrectionFor(k) ==
    \E i \in 1..Len(corrections) : corrections[i].parameter = PARAMETERS[k].name

\* the keys the planner evaluates for the configured sanitizer
ActiveSanitizerKey == IF sanitizerType = "bromine" THEN "bromine" ELSE "freeChlorine"
EvaluatedKeys ==
    {"totalAlkalinity", "pH", "totalHardness", ActiveSanitizerKey}
        \cup (IF sanitizerType = "chlorine" THEN {"cyanuricAcid"} ELSE {})

ChlorinePanelKeys ==
    {"totalAlkalinity", "pH", "totalHardness", "freeChlorine", "cyanuricAcid"}

\* the panel without key k
Without(rd, k) == [rd EXCEPT ![k] = undefined]

\* C1: chlorine, all five readings present and each outside its ideal range:
\* exactly five corrections, orders 1..5 in sequence, parameters Total
\* Alkalinity, pH, Calcium Hardness, Free Chlorine, Cyanuric Acid.
C1_TreatmentOrder ==
    (Returned /\ sanitizerType = "chlorine" /\ \A k \in ChlorinePanelKeys : OutOfRange(k))
        => /\ Len(corrections) = 5
           /\ Orders(corrections) = <<1, 2, 3, 4, 5>>
           /\ ParameterNames(corrections) =
                <<"Total Alkalinity", "pH", "Calcium Hardness", "Free Chlorine",
                  "Cyanuric Acid">>

\* C1 witness: such a panel with a mix of low and high readings has been planned
C1_Witness ==
    /\ Returned /\ sanitizerType = "chlorine"
    /\ BelowIdeal("totalAlkalinity") /\ AboveIdeal("pH") /\ AboveIdeal("totalHardness")
    /\ AboveIdeal("freeChlorine") /\ BelowIdeal("cyanuricAcid")
    /\ Len(corrections) = 5

\* C2: for every panel, volume and sanitizer type the returned order fields
\* are strictly increasing and drawn from 1..5 (so at most five corrections).
C2_StrictlyIncreasingTiers ==
    Returned =>
        /\ \A i \in 1..Len(corrections) : corrections[i].order \in 1..5
        /\ \A i, j \in 1..Len(corrections) :
              i < j => corrections[i].order < corrections[j].order
        /\ Len(corrections) <= 5

\* C2 witness: a plan with several tiers, one of them skipped
C2_Witness ==
    /\ Returned /\ sanitizerType = "bromine"
    /\ Orders(corrections) = <<1, 3, 4>>

\* C3: a reading inside [idealMin, idealMax], both ends included, yields no
\* correction for its parameter; every correction emitted belongs to an
\* evaluated parameter whose reading is below idealMin or above idealMax.
C3_NoCorrectionInRange ==
    Returned =>
        /\ \A k \in EvaluatedKeys : InIdealRange(k) => ~HasCorrectionFor(k)
        /\ \A i \in 1..Len(corrections) :
              \E k \in EvaluatedKeys :
                  PARAMETERS[k].name = corrections[i].parameter /\ OutOfRange(k)

\* C3 witness: readings exactly at idealMin and exactly at idealMax were planned
C3_Witness ==
    /\ Returned /\ sanitizerType = "chlorine"
    /\ readings["totalAlkalinity"] = PARAMETERS.totalAlkalinity.idealMin
    /\ readings["pH"] = PARAMETERS.pH.idealMax
    /\ readings["freeChlorine"] = PARAMETERS.freeChlorine.idealMax
    /\ readings["cyanuricAcid"] = PARAMETERS.cyanuricAcid.idealMin
    /\ BelowIdeal("totalHardness")
    /\ ParameterNames(corrections) = <<"Calcium Hardness">>

\* C4: sparse panels: an absent key yields no correction; dropping a key from
\* the panel only drops that parameter's correction and leaves the others as
\* they were; the empty panel yields the empty plan; totalChlorine, which the
\* planner does not know, has no effect on the plan.
C4_SparsePanel ==
    Returned =>
        /\ \A k \in Keys : ~IsPresent(k) => ~HasCorrectionFor(k)
        /\ \A k \in Keys \ {"totalChlorine"} :
              IsPresent(k) =>
                  calculateCorrections(Without(readings, k), volumeGallons, sanitizerType)
                      = SelectSeq(corrections,
                                  LAMBDA c : c.parameter # PARAMETERS[k].name)
        /\ (\A k \in Keys : ~IsPresent(k)) => corrections = <<>>
        /\ ~HasCorrectionFor("totalChlorine")
        /\ IsPresent("totalChlorine") =>
              calculateCorrections(Without(readings, "totalChlorine"), volumeGallons,
                                   sanitizerType) = corrections

\* C4 witness: a two-parameter panel plus totalChlorine was planned
C4_Witness ==
    /\ Returned
    /\ {k \in Keys : IsPresent(k)} = {"pH", "cyanuricAcid", "totalChlorine"}
    /\ Len(corrections) = 2

\* C5: doubling the volume doubles every raw quantity and changes neither
\* which corrections are emitted nor their order, chemical and waitMinutes.
C5_VolumeLinearity ==
    Returned =>
        LET twice == calculateCorrections(readings, RMul(Num(2), volumeGallons),
                                          sanitizerType)
        IN  /\ Len(twice) = Len(corrections)
            /\ \A i \in 1..Len(corrections) :
                  /\ twice[i].order = corrections[i].order
                  /\ twice[i].parameter = corrections[i].parameter
                  /\ twice[i].chemical = corrections[i].chemical
                  /\ twice[i].waitMinutes = corrections[i].waitMinutes
                  /\ (corrections[i].amt = undefined) = (twice[i].amt = undefined)
                  /\ corrections[i].amt # undefined =>
                        twice[i].amt = RMul(Num(2), corrections[i].amt)

\* C5 witness: a plan with a chemical dose of positive raw quantity
C5_Witness ==
    /\ Returned
    /\ \E i \in 1..Len(corrections) :
          corrections[i].amt # undefined /\ corrections[i].amt[1] > 0

\* C6: with sanitizer type bromine no correction has order 5 or parameter
\* Cyanuric Acid, whatever the cyanuricAcid reading.
C6_NoCyanuricAcidForBromine ==
    (Returned /\ sanitizerType = "bromine") =>
        \A i \in 1..Len(corrections) :
            corrections[i].order # 5 /\ corrections[i].parameter # "Cyanuric Acid"

\* C6 witness: a bromine panel with an out-of-range cyanuricAcid reading
C6_Witness ==
    /\ Returned /\ sanitizerType = "bromine"
    /\ OutOfRange("cyanuricAcid")
    /\ Len(corrections) > 0

\* the corrections of tier 4
Tier4(cs) == SelectSeq(cs, LAMBDA c : c.order = 4)

\* what C7 expects of tier 4 when the reading r of the active sanitizer is
\* judged against [lo, hi], named name, and dosed qty oz per per ppm
Tier4AsUnit(r, lo, hi, name, chemical, qty, per) ==
    LET tier4  == Tier4(corrections)
        target == RDiv(RAdd(lo, hi), Num(2))
    IN  /\ Len(tier4) = (IF r # undefined /\ (RLess(r, lo) \/ RLess(hi, r)) THEN 1 ELSE 0)
        /\ \A i \in 1..Len(tier4) :
              /\ tier4[i].parameter = name
              /\ RLess(r, lo) =>
                    /\ tier4[i].chemical = chemical
                    /\ tier4[i].amt =
                          RMul(RMul(RDiv(RSub(target, r), per), qty),
                               RDiv(volumeGallons, Num(10000)))
                    /\ tier4[i].action = [verb |-> "Raise", from |-> r, to |-> target]
              /\ RLess(hi, r) =>
                    /\ tier4[i].chemical = "Wait & Aerate"
                    /\ tier4[i].amt = undefined

\* C7: the tier-4 correction is selected by sanitizerType as one unit: with
\* 'bromine' readings.bromine against [4,6], named Total Bromine, 2 oz per
\* 2 ppm per 10,000 gal, freeChlorine ignored; with 'chlorine'
\* readings.freeChlorine against [3,5], named Free Chlorine, 2 oz per 1.5 ppm
\* per 10,000 gal, bromine ignored.
C7_SanitizerSwitchesTogether ==
    Returned =>
        /\ sanitizerType = "bromine" =>
              /\ Tier4AsUnit(readings["bromine"], Num(4), Num(6), "Total Bromine",
                             "Sodium Bromide + MPS Shock", Num(2), Num(2))
              /\ Tier4(calculateCorrections(Without(readings, "freeChlorine"),
                                            volumeGallons, sanitizerType))
                    = Tier4(corrections)
        /\ sanitizerType = "chlorine" =>
              /\ Tier4AsUnit(readings["freeChlorine"], Num(3), Num(5), "Free Chlorine",
                             "Sodium Dichlor (56% Chlorine Granules)", Num(2),
                             Rat(15, 10))
              /\ Tier4(calculateCorrections(Without(readings, "bromine"),
                                            volumeGallons, sanitizerType))
                    = Tier4(corrections)

\* C7 witness: a bromine panel with low bromine and high free chlorine
C7_Witness ==
    /\ Returned /\ sanitizerType = "bromine"
    /\ BelowIdeal("bromine") /\ AboveIdeal("freeChlorine")
    /\ Len(Tier4(corrections)) = 1

\* the panel of the concrete scenario: 400 gallons, chlorine
ScenarioPanel ==
    [totalAlkalinity |-> Num(60), pH |-> Num(8), totalHardness |-> Num(200),
     freeChlorine |-> Num(2), cyanuricAcid |-> Num(20),
     bromine |-> undefined, totalChlorine |-> undefined]

Scenario ==
    /\ Returned
    /\ readings = ScenarioPanel
    /\ volumeGallons = Num(400)
    /\ sanitizerType = "chlorine"

\* C8 as stated: the plan of the scenario contains exactly 5 corrections.
C8_FiveCorrections == Scenario => Len(corrections) = 5

\* C8 as amended: the plan of the scenario contains exactly 4 corrections
\* (hardness 200 lies in [175, 250] and gets none).
C8_FourCorrections == Scenario => Len(corrections) = 4

\* C8 witness: the scenario has been planned
C8_Witness == Scenario /\ Len(corrections) > 0

\* parameter, verb and target of each correction
Summary(cs) ==
    [i \in 1..Len(cs) |-> <<cs[i].parameter, cs[i].action.verb, cs[i].action.to>>]

\* C9: the plan of the scenario has no Calcium Hardness (order 3) correction
\* and is, in this order: Total Alkalinity raised to ~100, pH lowered to ~7.5,
\* Free Chlorine raised to ~4, Cyanuric Acid raised to ~40.
C9_ScenarioPlan ==
    Scenario =>
        /\ \A i \in 1..Len(corrections) :
              corrections[i].order # 3 /\ corrections[i].parameter # "Calcium Hardness"
        /\ Summary(corrections) =
              << <<"Total Alkalinity", "Raise", Num(100)>>,
                 <<"pH", "Lower", Rat(75, 10)>>,
                 <<"Free Chlorine", "Raise", Num(4)>>,
                 <<"Cyanuric Acid", "Raise", Num(40)>> >>

\* C9 witness: the scenario has been planned and its plan starts at tier 1
C9_Witness == Scenario /\ Orders(corrections) = <<1, 2, 4, 5>>

----------------------------------------------------------------------------
(* Properties of the colour matcher *)

Matched == pc = "matched"
Interpolated == pc = "interpolated"
KnownChart == chartKey \in DOMAIN COLOR_CHARTS
ChartPoints == COLOR_CHARTS[chartKey].colors

\* the distance of the sample to the i-th calibration point of the chart
DistanceTo(i) ==
    deltaE76(rgbToLab(sampled[1], sampled[2], sampled[3]),
             rgbToLab(ChartPoints[i].r, ChartPoints[i].g, ChartPoints[i].b))

IsCalibrationColor(i) ==
    sampled = <<ChartPoints[i].r, ChartPoints[i].g, ChartPoints[i].b>>

\* no two calibration points of one chart have the same colour
DistinctCalibrationColors ==
    \A k \in DOMAIN COLOR_CHARTS :
        \A i, j \in 1..Len(COLOR_CHARTS[k].colors) :
            i # j => <<COLOR_CHARTS[k].colors[i].r, COLOR_CHARTS[k].colors[i].g,
                       COLOR_CHARTS[k].colors[i].b>>
                     # <<COLOR_CHARTS[k].colors[j].r, COLOR_CHARTS[k].colors[j].g,
                         COLOR_CHARTS[k].colors[j].b>>

\* C10: round trip of the nearest matcher: the colour of a calibration point
\* of the chart is matched to that point's value with deltaE 0; no chart
\* repeats a colour, and the point returned is the first of the nearest ones
\* (a later point at equal distance never replaces an earlier one).
C10_RoundTrip ==
    (Matched /\ KnownChart) =>
        /\ \A i \in 1..Len(ChartPoints) :
              IsCalibrationColor(i) =>
                  /\ matchResult.value = ChartPoints[i].value
                  /\ matchResult.deltaE = 0
                  /\ matchResult.refColor = ChartPoints[i]
        /\ DistinctCalibrationColors
        /\ \E i \in 1..Len(ChartPoints) :
              /\ matchResult.refColor = ChartPoints[i]
              /\ matchResult.deltaE = DistanceTo(i)
              /\ \A j \in 1..Len(ChartPoints) :
                    /\ DistanceTo(j) >= matchResult.deltaE
                    /\ j < i => DistanceTo(j) > matchResult.deltaE

\* C10 witness: the colour of a calibration point that is neither the first
\* nor the last of its chart has been matched
C10_Witness ==
    /\ Matched /\ KnownChart
    /\ \E i \in 2..(Len(ChartPoints) - 1) :
          IsCalibrationColor(i) /\ matchResult.value = ChartPoints[i].value

ChartDistances == <<>> \o [i \in 1..Len(ChartPoints) |-> DistanceTo(i)]

RLeq(a, b) == ~RLess(b, a)
Between(v, a, b) == (RLeq(a, v) /\ RLeq(v, b)) \/ (RLeq(b, v) /\ RLeq(v, a))

\* point i is a nearest point of the chart and point j a nearest of the others
NearestTwo(d, i, j) ==
    /\ i # j
    /\ \A k \in 1..Len(d) : d[i] <= d[k]
    /\ \A k \in 1..Len(d) \ {i} : d[j] <= d[k]

\* C12: for a known chart the value returned by matchColorInterpolated has
\* at most one decimal, lies between the smallest and the largest value of
\* the chart, and lies between the values of the two calibration points
\* nearest to the sample.
C12_ValueWithinChart ==
    (Interpolated /\ KnownChart) =>
        LET v == interpolated.value
            d == ChartDistances
        IN  /\ RMul(v, Num(10))[2] = 1
            /\ \E i \in 1..Len(ChartPoints) : RLeq(ChartPoints[i].value, v)
            /\ \E i \in 1..Len(ChartPoints) : RLeq(v, ChartPoints[i].value)
            /\ \E i, j \in 1..Len(ChartPoints) :
                  /\ NearestTwo(d, i, j)
                  /\ Between(v, ChartPoints[i].value, ChartPoints[j].value)

\* C12 witness: a sample further than 1 from every point has been given a
\* value strictly between the values of its two nearest points
C12_Witness ==
    /\ Interpolated /\ KnownChart
    /\ interpolated.deltaE >= 100
    /\ \E i, j \in 1..Len(ChartPoints) :
          /\ NearestTwo(ChartDistances, i, j)
          /\ interpolated.value # ChartPoints[i].value
          /\ interpolated.value # ChartPoints[j].value
          /\ Between(interpolated.value, ChartPoints[i].value, ChartPoints[j].value)

\* what matchColorInterpolated finds for the calibration colours of all
\* charts, the colours between them and the far colours: chart key, distance
\* of the nearest point, confidence
ConfidenceByDistance ==
    {LET found == matchColorInterpolated(s[1], s[2], s[3], k)
     IN  <<k, found.deltaE, found.confidence>> :
        k \in DOMAIN COLOR_CHARTS, s \in CalibrationColors \cup Midpoints \cup FarColors}

\* high > medium > low
Rank(confidence) ==
    CASE confidence = "high" -> 3 [] confidence = "medium" -> 2 [] confidence = "low" -> 1

\* C13: against one chart, a sample whose nearest point is no further than
\* that of another sample has a confidence at least as good (high > medium >
\* low); a nearest distance under 1 (the shortcut) gives a confidence no
\* worse than the steps under 10 high, under 25 medium, else low.
C13_ConfidenceMonotone ==
    (Interpolated /\ KnownChart) =>
        /\ \A other \in ConfidenceByDistance :
              other[1] = chartKey =>
                  /\ interpolated.deltaE <= other[2] =>
                        Rank(interpolated.confidence) >= Rank(other[3])
                  /\ other[2] <= interpolated.deltaE =>
                        Rank(other[3]) >= Rank(interpolated.confidence)
        /\ interpolated.deltaE < 100 =>
              Rank(interpolated.confidence) >=
                  Rank(IF interpolated.deltaE < 1000 THEN "high"
                       ELSE IF interpolated.deltaE < 2500 THEN "medium" ELSE "low")

\* C13 witness: a sample of medium confidence has been matched against a
\* chart that has samples of high and of low confidence as well
C13_Witness ==
    /\ Interpolated /\ KnownChart
    /\ interpolated.confidence = "medium"
    /\ \E a, b \in ConfidenceByDistance :
          /\ a[1] = chartKey /\ a[3] = "high" /\ a[2] >= 100
          /\ b[1] = chartKey /\ b[3] = "low"

\* the scenario of the spec: rgb(255,248,240) against the freeChlorine chart
OffWhiteOnFreeChlorine == chartKey = "freeChlorine" /\ sampled = <<255, 248, 240>>

----------------------------------------------------------------------------
(* Properties of extractAverageColor *)

Extracted == pc = "extracted"

\* the square of side 2 * sampleRadius centred at the tap, in whole pixels:
\* its first column (row) and the one after its last
SquareFrom(x) == MathRound(RSub(x, Num(sampleRadius)))
SquareTo(x) == SquareFrom(x) + 2 * sampleRadius

\* a tap on the canvas, as the click handler of the analyze screen gives it
TapOnCanvas ==
    /\ RLeq(Num(0), tap[1]) /\ RLeq(tap[1], Num(canvas.width))
    /\ RLeq(Num(0), tap[2]) /\ RLeq(tap[2], Num(canvas.height))

\* C15 as claimed, for a tap on the canvas: the rectangle read is the
\* intersection of the square centred at the tap with the canvas, on all
\* four edges; nothing is read when the intersection is empty.
C15_RegionIsIntersection ==
    (Extracted /\ TapOnCanvas) =>
        LET left   == Max(0, SquareFrom(tap[1]))
            right  == Min(canvas.width, SquareTo(tap[1]))
            top    == Max(0, SquareFrom(tap[2]))
            bottom == Min(canvas.height, SquareTo(tap[2]))
        IN  IF left < right /\ top < bottom
            THEN region = [sx |-> left, sy |-> top, sw |-> right - left, sh |-> bottom - top]
            ELSE region = null

\* the values of one channel over the pixels of the rectangle read
ChannelValues(channel) ==
    {canvas.pixels[<<col, row>>][channel] :
        col \in region.sx..(region.sx + region.sw - 1),
        row \in region.sy..(region.sy + region.sh - 1)}

\* C16: extractAverageColor returns null exactly when the clamped width or
\* height is not positive (so for sampleRadius 0, and for a point with no
\* pixel at its right or below), and then reads nothing; otherwise the
\* rectangle read lies inside the canvas and has at least one pixel, and
\* each returned channel is an integer in 0..255 between the least and the
\* greatest value of that channel over the pixels read.
C16_ReadsInsideImage ==
    Extracted =>
        LET width  == Min(2 * sampleRadius, canvas.width - Max(0, SquareFrom(tap[1])))
            height == Min(2 * sampleRadius, canvas.height - Max(0, SquareFrom(tap[2])))
        IN  /\ average = null <=> (width <= 0 \/ height <= 0)
            /\ average = null <=> region = null
            /\ sampleRadius = 0 => average = null
            /\ region # null =>
                  /\ region.sx >= 0 /\ region.sy >= 0
                  /\ region.sw >= 1 /\ region.sh >= 1
                  /\ region.sx + region.sw <= canvas.width
                  /\ region.sy + region.sh <= canvas.height
            /\ average # null =>
                  \A channel \in 1..3 :
                      LET value == <<average.r, average.g, average.b>>[channel]
                      IN  /\ value \in 0..255
                          /\ \E low \in ChannelValues(channel) : low <= value
                          /\ \E high \in ChannelValues(channel) : value <= high

\* C16 witness: a rectangle cut at the right edge of the canvas has been
\* averaged over pixels that differ
C16_Witness ==
    /\ Extracted /\ region # null /\ average # null
    /\ region.sw < 2 * sampleRadius
    /\ region.sx + region.sw = canvas.width
    /\ \E low, high \in ChannelValues(1) : low < average.r /\ average.r < high

----------------------------------------------------------------------------
(* Properties of buildSpeechScript *)

Spoken == pc = "spoken"

\* the order in which the parameters are read out
ReadOrder ==
    <<"pH", "totalAlkalinity", "totalHardness">>
        \o (IF sanitizerType = "bromine" THEN <<"bromine">>
            ELSE <<"freeChlorine", "cyanuricAcid">>)

ReadName(key) ==
    CASE key = "pH" -> "pH"
      [] key = "totalAlkalinity" -> "Total Alkalinity"
      [] key = "totalHardness" -> "Calcium Hardness"
      [] key = "bromine" -> "Total Bromine"
      [] key = "freeChlorine" -> "Free Chlorine"
      [] key = "cyanuricAcid" -> "Cyanuric Acid"

\* the keys of ReadOrder that have a reading, in that order
PresentInOrder == SelectSeq(ReadOrder, LAMBDA key : readings[key] # undefined)

\* C17: after the opening the script has exactly one sentence for each
\* present parameter of pH, Total Alkalinity, Calcium Hardness, the
\* sanitizer (Total Bromine for 'bromine', else Free Chlorine) and, when not
\* bromine, Cyanuric Acid, in that order, and none for an absent one; the
\* sentence says 'in the ideal range' iff idealMin <= value <= idealMax,
\* 'low' iff value < idealMin, 'high' iff value > idealMax.
C17_SpeechOrderAndWords ==
    Spoken =>
        /\ Len(speech) = 1 + Len(PresentInOrder)
        /\ \A i \in 1..Len(PresentInOrder) :
              LET key  == PresentInOrder[i]
                  line == speech[i + 1]
                  val  == readings[key]
                  p    == PARAMETERS[key]
              IN  /\ line.name = ReadName(key)
                  /\ line.value = val
                  /\ line.statusWord = "in the ideal range"
                        <=> (RLeq(p.idealMin, val) /\ RLeq(val, p.idealMax))
                  /\ line.statusWord = "low" <=> RLess(val, p.idealMin)
                  /\ line.statusWord = "high" <=> RLess(p.idealMax, val)

\* C17 witness: a script for a chlorine panel with all five parameters, one
\* of them at the low end of its range, one low and one high
C17_Witness ==
    /\ Spoken /\ sanitizerType = "chlorine" /\ Len(speech) = 6
    /\ readings["pH"] = PARAMETERS["pH"].idealMin
    /\ speech[2].statusWord = "in the ideal range"
    /\ speech[3].statusWord = "low"
    /\ speech[4].statusWord = "high"

----------------------------------------------------------------------------
(* Properties of generateICS *)

Generated == pc = "generated"

\* a formatted time in minutes since the midnight of day 0
InMinutes(stamp) == stamp.day * 1440 + stamp.hours * 60 + stamp.minutes

\* the start that generateICS is given or takes, in minutes
GivenStart ==
    IF startTime = null THEN (now \div 60000) + 30 ELSE startTime.time \div 60000

RECURSIVE SumOfWaits(_)
SumOfWaits(cs) == IF cs = <<>> THEN 0 ELSE Head(cs).waitMinutes + SumOfWaits(Tail(cs))

\* C18: the calendar has one event per correction in plan order and then one
\* event 'Retest Water' and no other; the first event starts at the start
\* time, each later event starts at the start of the event before it plus
\* the waitMinutes of that correction, which is where the event before it
\* ends; the retest starts at the start time plus the sum of all
\* waitMinutes; an empty plan gives the retest alone, at the start time.
C18_GapFreeChain ==
    Generated =>
        LET n == Len(corrections) IN
        /\ Len(events) = n + 1
        /\ \A i \in 1..n : events[i].SUMMARY = <<"Spa: ", corrections[i].action>>
        /\ events[n + 1].SUMMARY = <<"Spa: ", "Retest Water">>
        /\ InMinutes(events[1].DTSTART) = GivenStart
        /\ \A i \in 2..(n + 1) :
              /\ InMinutes(events[i].DTSTART) =
                    InMinutes(events[i - 1].DTSTART) + corrections[i - 1].waitMinutes
              /\ events[i].DTSTART = events[i - 1].DTEND
        /\ InMinutes(events[n + 1].DTSTART) = GivenStart + SumOfWaits(corrections)
        /\ \A i \in 1..(n + 1) : events[i].DTSTART.seconds = 0

\* C18 witness: a plan of five corrections with three different waits has
\* been put on the calendar from 23:50, and the chain runs past midnight
C18_Witness ==
    /\ Generated /\ Len(corrections) = 5 /\ Len(events) = 6
    /\ startTime = [time |-> 85800000]
    /\ Cardinality({corrections[i].waitMinutes : i \in 1..5}) >= 3
    /\ events[6].DTSTART.day = 1

----------------------------------------------------------------------------
(* Properties of the quantities of the planner *)

\* the correction for the parameter of key k
CorrectionFor(k) ==
    corrections[CHOOSE i \in 1..Len(corrections) :
                    corrections[i].parameter = PARAMETERS[k].name]

\* the target of a raise, and the 'up' rule of the parameter: the change
\* that the quantity brings about in 10,000 gallons
RaiseTarget ==
    [totalAlkalinity |-> Num(100), pH |-> Rat(75, 10), totalHardness |-> Rat(2125, 10),
     freeChlorine |-> Num(4), bromine |-> Num(5), cyanuricAcid |-> Num(40)]
RuleUnitChange ==
    [totalAlkalinity |-> Num(10), pH |-> Rat(2, 10), totalHardness |-> Num(10),
     freeChlorine |-> Rat(15, 10), bromine |-> Num(2), cyanuricAcid |-> Num(12)]
RuleQuantityPer10k ==
    [totalAlkalinity |-> Rat(15, 10), pH |-> Num(6), totalHardness |-> Rat(125, 100),
     freeChlorine |-> Num(2), bromine |-> Num(2), cyanuricAcid |-> Num(1)]

\* C19: for each evaluated parameter with a reading below idealMin the raw
\* quantity of its correction is (target - reading) / ruleUnitChange *
\* ruleQuantityPer10k * (volume / 10000), with the targets 100 (Total
\* Alkalinity), 7.5 (pH), 212.5 (Calcium Hardness), 4 (Free Chlorine), 5
\* (Total Bromine), 40 (Cyanuric Acid) and the parameter's own 'up' rule, and
\* it is strictly positive.
C19_RaiseQuantity ==
    Returned =>
        \A k \in EvaluatedKeys :
            BelowIdeal(k) =>
                /\ HasCorrectionFor(k)
                /\ CorrectionFor(k).amt =
                      RMul(RMul(RDiv(RSub(RaiseTarget[k], readings[k]), RuleUnitChange[k]),
                                RuleQuantityPer10k[k]),
                           RDiv(volumeGallons, Num(10000)))
                /\ RLess(Num(0), CorrectionFor(k).amt)

\* C19 witness: a plan that raises all five parameters of a chlorine panel
\* for a volume that is not the first one
C19_Witness ==
    /\ Returned /\ sanitizerType = "chlorine" /\ volumeGallons = Num(500)
    /\ \A k \in ChlorinePanelKeys : BelowIdeal(k)
    /\ Len(corrections) = 5

\* the keys whose high reading is treated by dilution
DilutedKeys == {"totalHardness", "cyanuricAcid"} \cap EvaluatedKeys

DrainIdealMax == [totalHardness |-> Num(250), cyanuricAcid |-> Num(50)]

\* C20: for a Calcium Hardness or Cyanuric Acid reading above idealMax the
\* correction is 'Partial Water Replacement' and no dose, with the
\* percentage round((1 - idealMax / reading) * 100) for idealMax 250 and 50,
\* and waitMinutes 60; the same correction is planned for every volume.
C20_HighIsDiluted ==
    Returned =>
        \A k \in DilutedKeys :
            AboveIdeal(k) =>
                /\ HasCorrectionFor(k)
                /\ CorrectionFor(k).chemical = "Partial Water Replacement"
                /\ CorrectionFor(k).amt = undefined
                /\ CorrectionFor(k).amount.n1 =
                      MathRound(RMul(RSub(Num(1), RDiv(DrainIdealMax[k], readings[k])),
                                     Num(100)))
                /\ readings[k] = Num(400) => CorrectionFor(k).amount.n1 = 38
                /\ CorrectionFor(k).waitMinutes = 60
                /\ \A volume \in DoseVolumes :
                      LET other == calculateCorrections(readings, volume, sanitizerType)
                      IN  \E i \in 1..Len(other) : other[i] = CorrectionFor(k)

\* C20 witness: hardness 400 and cyanuric acid 100 of a chlorine panel have
\* both been answered by a partial water replacement
C20_Witness ==
    /\ Returned /\ sanitizerType = "chlorine"
    /\ readings["totalHardness"] = Num(400) /\ readings["cyanuricAcid"] = Num(100)
    /\ CorrectionFor("totalHardness").amount.n1 = 38
    /\ CorrectionFor("cyanuricAcid").amount.n1 = 50

----------------------------------------------------------------------------
(* Properties of the corrections without a dose and of the lowering doses *)

\* what the user is told to add: chemical, amount, waitMinutes
Prescription(c) ==
    [chemical |-> c.chemical, amount |-> c.amount, amt |-> c.amt,
     waitMinutes |-> c.waitMinutes]

\* the plans for the same panel with the reading of key k replaced
PlanWith(k, reading, volume) ==
    calculateCorrections([readings EXCEPT ![k] = reading], volume, sanitizerType)

\* C21: a reading of the active sanitizer above idealMax gets the tier-4
\* correction with chemical 'Wait & Aerate', amount 'Leave cover off, run
\* jets', no quantity and waitMinutes 30, whatever the volume and however
\* far above idealMax the reading is.
C21_SanitizerHighAerates ==
    (Returned /\ AboveIdeal(ActiveSanitizerKey)) =>
        LET k == ActiveSanitizerKey IN
        /\ HasCorrectionFor(k)
        /\ CorrectionFor(k).order = 4
        /\ Prescription(CorrectionFor(k)) =
              [chemical |-> "Wait & Aerate",
               amount |-> Amount("Leave cover off, run jets", 0, 0),
               amt |-> undefined, waitMinutes |-> 30]
        /\ \A volume \in EdgeVolumes, t \in EdgeReadingTenths[k] :
              RLess(PARAMETERS[k].idealMax, Rat(t, 10)) =>
                  \E i \in 1..Len(PlanWith(k, Rat(t, 10), volume)) :
                      /\ PlanWith(k, Rat(t, 10), volume)[i].parameter = PARAMETERS[k].name
                      /\ Prescription(PlanWith(k, Rat(t, 10), volume)[i])
                            = Prescription(CorrectionFor(k))

\* C21 witness: bromine at 20 ppm in the largest volume has been planned
C21_Witness ==
    /\ Returned /\ sanitizerType = "bromine" /\ readings["bromine"] = Num(20)
    /\ volumeGallons = Num(250 * MaxEdgeVolumes)
    /\ Len(corrections) = 1 /\ corrections[1].chemical = "Wait & Aerate"

\* C22: Total Alkalinity above idealMax gets, with order 1, the raw quantity
\* (reading - 120) * 0.1 * (volume / 10000) of Sodium Bisulfate, aiming at
\* 120; pH above idealMax gets, with order 2, (reading - 7.5) / 0.2 * 12 *
\* (volume / 10000), aiming at 7.5; both quantities are strictly positive.
C22_LowerQuantities ==
    Returned =>
        /\ AboveIdeal("totalAlkalinity") =>
              /\ HasCorrectionFor("totalAlkalinity")
              /\ CorrectionFor("totalAlkalinity").order = 1
              /\ CorrectionFor("totalAlkalinity").chemical
                    = "Sodium Bisulfate (pH Decreaser)"
              /\ CorrectionFor("totalAlkalinity").action.to = Num(120)
              /\ CorrectionFor("totalAlkalinity").amt =
                    RMul(RMul(RSub(readings["totalAlkalinity"], Num(120)), Rat(1, 10)),
                         RDiv(volumeGallons, Num(10000)))
              /\ RLess(Num(0), CorrectionFor("totalAlkalinity").amt)
        /\ AboveIdeal("pH") =>
              /\ HasCorrectionFor("pH")
              /\ CorrectionFor("pH").order = 2
              /\ CorrectionFor("pH").chemical = "Sodium Bisulfate (pH Decreaser)"
              /\ CorrectionFor("pH").action.to = Rat(75, 10)
              /\ CorrectionFor("pH").amt =
                    RMul(RMul(RDiv(RSub(readings["pH"], Rat(75, 10)), Rat(2, 10)), Num(12)),
                         RDiv(volumeGallons, Num(10000)))
              /\ RLess(Num(0), CorrectionFor("pH").amt)

\* C22 witness: pH 8.2 has been lowered in 500 gallons
C22_Witness ==
    /\ Returned /\ readings["pH"] = Rat(82, 10) /\ volumeGallons = Num(500)
    /\ Len(corrections) = 1 /\ corrections[1].action.verb = "Lower"

----------------------------------------------------------------------------
(* Properties of the direct return of matchColorInterpolated *)

\* the average of v1 and v2 weighted by 1 / d1 and 1 / d2, namely
\* (v1 / d1 + v2 / d2) / (1 / d1 + 1 / d2) = (v1 * d2 + v2 * d1) / (d1 + d2)
InverseDistanceAverage(v1, d1, v2, d2) ==
    RDiv(RAdd(RMul(v1, Num(d2)), RMul(v2, Num(d1))), Num(d1 + d2))

\* v has one decimal and is a nearest such number to x
IsRoundedToTenth(v, x) ==
    /\ RMul(v, Num(10))[2] = 1
    /\ LET diff == RSub(RMul(v, Num(10)), RMul(x, Num(10)))
       IN  RLeq(RMul(diff, Num(2)), Num(1)) /\ RLeq(Num(-1), RMul(diff, Num(2)))

\* C23: when the nearest calibration point is closer than 1.0 to the
\* sample, matchColorInterpolated returns exactly that point's value with
\* confidence 'high' and deltaE that distance; otherwise it returns the
\* inverse-distance-weighted average of the values of the two nearest
\* points rounded to one decimal, with deltaE the nearest distance.
C23_DirectOrWeighted ==
    (Interpolated /\ KnownChart) =>
        LET d == ChartDistances IN
        \E i, j \in 1..Len(ChartPoints) :
            /\ NearestTwo(d, i, j)
            /\ interpolated.deltaE = d[i]
            /\ IF d[i] < 100
               THEN /\ interpolated.value = ChartPoints[i].value
                    /\ interpolated.confidence = "high"
               ELSE IsRoundedToTenth(interpolated.value,
                        InverseDistanceAverage(ChartPoints[i].value, d[i],
                                                ChartPoints[j].value, d[j]))

\* C23 witness: a sample at a distance between 0 and 1 from its nearest
\* point, whose weighted average would round to another value, has been
\* given that point's value
C23_Witness ==
    /\ Interpolated /\ KnownChart
    /\ interpolated.deltaE > 0 /\ interpolated.deltaE < 100
    /\ \E i, j \in 1..Len(ChartPoints) :
          /\ NearestTwo(ChartDistances, i, j)
          /\ interpolated.value = ChartPoints[i].value
          /\ ~IsRoundedToTenth(interpolated.value,
                  InverseDistanceAverage(ChartPoints[i].value, ChartDistances[i],
                                          ChartPoints[j].value, ChartDistances[j]))

----------------------------------------------------------------------------
(* Properties of the reference data used by the matcher *)

\* the calibration values of the chart in use, in chart order
ChartValues == <<>> \o [i \in 1..Len(ChartPoints) |-> ChartPoints[i].value]

\* C24: the chart in use has between 2 and 10 calibration points, each with
\* r, g and b integers in 0..255; its values are strictly increasing in
\* chart order; the levels list of its parameter in PARAMETERS is exactly
\* the list of its values; so a call of matchColorInterpolated has computed
\* at least two distances and has a second-nearest point.
C24_ReferenceData ==
    KnownChart =>
        /\ Len(ChartPoints) >= 2 /\ Len(ChartPoints) <= 10
        /\ \A i \in 1..Len(ChartPoints) :
              /\ ChartPoints[i].r \in 0..255
              /\ ChartPoints[i].g \in 0..255
              /\ ChartPoints[i].b \in 0..255
        /\ \A i \in 1..(Len(ChartPoints) - 1) :
              RLess(ChartPoints[i].value, ChartPoints[i + 1].value)
        /\ chartKey \in DOMAIN PARAMETERS
        /\ PARAMETERS[chartKey].levels = ChartValues
        /\ Interpolated =>
              /\ distances >= 2
              /\ LET d == ChartDistances
                 IN  \E i, j \in 1..Len(ChartPoints) : NearestTwo(d, i, j)

\* C24 witness: matchColorInterpolated has returned on the chart with the
\* fewest points
C24_Witness ==
    /\ Interpolated /\ KnownChart /\ interpolated # null
    /\ \A k \in DOMAIN COLOR_CHARTS : Len(ChartPoints) <= Len(COLOR_CHARTS[k].colors)
    /\ distances = Len(ChartPoints)

----------------------------------------------------------------------------
(* Properties of the amounts shown to the user *)

\* C25: the percentage of a dilution correction ('Drain ~N% and refill with
\* fresh water') is an integer between 1 and 99.
C25_DrainPercentInRange ==
    Returned =>
        \A i \in 1..Len(corrections) :
            corrections[i].chemical = "Partial Water Replacement" =>
                corrections[i].amount.n1 \in 1..99

\* the amount reads '0 teaspoons', '0.0 tablespoons' or '0.0 oz'
ShowsZero(amount) ==
    /\ amount.form \in {"teaspoons", "tablespoons.1", "oz.1"}
    /\ amount.n1 = 0

\* C26: a strictly positive raw quantity is never shown as '0 teaspoons',
\* '0.0 tablespoons' or '0.0 oz'.
C26_PositiveNeverShownAsZero ==
    Returned =>
        \A i \in 1..Len(corrections) :
            (corrections[i].amt # undefined /\ RLess(Num(0), corrections[i].amt))
                => ~ShowsZero(corrections[i].amount)

----------------------------------------------------------------------------
(* Agreement of the spoken summary with the plan *)

Rendered == pc = "rendered"

\* the keys of the parameters that the summary reads out
SpokenKeys ==
    {k \in Keys : \E i \in 2..Len(speech) : speech[i].name = PARAMETERS[k].name}

\* the keys that the summary reads out as 'low' or 'high'
AnnouncedKeys ==
    {k \in Keys : \E i \in 2..Len(speech) :
        /\ speech[i].name = PARAMETERS[k].name
        /\ speech[i].statusWord \in {"low", "high"}}

\* C27: on every panel and for every sanitizerType, the parameters read by
\* the spoken summary are the present parameters that the planner evaluates,
\* a parameter is spoken as 'low' or 'high' iff the plan has a correction
\* for it, and the number of parameters announced out of range is the
\* number of corrections.
C27_SpeechAgreesWithPlan ==
    Rendered =>
        /\ SpokenKeys = {k \in EvaluatedKeys : IsPresent(k)}
        /\ \A k \in Keys : (k \in AnnouncedKeys) <=> HasCorrectionFor(k)
        /\ Cardinality(AnnouncedKeys) = Len(corrections)

----------------------------------------------------------------------------
(* Properties of the analysis wizard *)

\* the keys that have a reading
ReadingKeys == {k \in Keys : readings[k] # undefined}

\* the first n entries of analysisParams
FirstParams(n) == {analysisParams[i] : i \in 1..n}

\* C28: 0 <= analysisStep <= length of analysisParams, the keys of
\* state.readings are exactly the first analysisStep entries of
\* analysisParams, and the results screen is shown only when every analysis
\* parameter has a reading.
C28_WizardInvariant ==
    /\ analysisStep >= 0 /\ analysisStep <= Len(analysisParams)
    /\ ReadingKeys = FirstParams(analysisStep)
    /\ screen = "results" => FirstParams(Len(analysisParams)) \subseteq ReadingKeys

----------------------------------------------------------------------------
(* Properties of the volume gate *)

\* the entered volume is missing, not a number, zero or negative
NoVolume(vol) == vol = NaN \/ ~RLess(Num(0), vol)

\* C29: after every render a screen other than 'settings' is shown only if
\* state.volume > 0; saving the settings with a volume that is missing, not
\* a number or <= 0 leaves volume, unit, sanitizer type and screen (and
\* what is stored of them) unchanged; calculateCorrections has only been
\* called with a volume in gallons that is > 0.
C29_VolumeGate ==
    /\ [](/\ screen # "settings" => RLess(Num(0), stateVolume)
          /\ volumeGallons # undefined => RLess(Num(0), volumeGallons))
    /\ [][\A vol \in EnteredVolumes, unit \in Units, san \in Sanitizers :
            (NoVolume(vol) /\ SaveSettingsWith(vol, unit, san)) =>
                UNCHANGED <<stateVolume, volumeUnit, sanitizerType, screen, storage>>]_vars

\* C29 witness: a spa of 400 liters has been set up and the plan has been
\* computed for 105.6688 gallons
C29_Witness ==
    /\ pc = "app" /\ screen = "results" /\ volumeUnit = "liters"
    /\ stateVolume = Num(400) /\ volumeGallons = Rat(1056688, 10000)
    /\ corrections # <<>>

----------------------------------------------------------------------------
(* Properties of the history *)

\* C30: the history holds at most 50 entries, in the order in which they
\* were saved with none missing in between, and equals what localStorage
\* holds of it; a Save to History puts the saved entry last and keeps,
\* before it, the most recent entries of the history in their order,
\* dropping the oldest when there were 50.
C30_HistoryCap ==
    /\ [](/\ Len(history) <= 50
          /\ \A i \in 1..(Len(history) - 1) : history[i + 1].date = history[i].date + 1
          /\ history = IF storage.sparobot_history = null THEN <<>>
                       ELSE JSONparse(storage.sparobot_history))
    /\ [][SaveToHistory =>
            /\ history'[Len(history')].readings = Spread(readings)
            /\ history'[Len(history')].volume = stateVolume
            /\ history'[Len(history')].sanitizerType = sanitizerType
            /\ LET all == Append(history, history'[Len(history')])
               IN  history' = SubSeq(all, IF Len(all) > 50 THEN Len(all) - 49 ELSE 1,
                                     Len(all))]_vars

\* C30 witness: a result has been saved to a history of 50 entries, whose
\* oldest entry has been dropped
C30_Witness ==
    /\ pc = "app" /\ saved > 0 /\ Len(history) = 50
    /\ history[1].date = saved + 1
    /\ history[50].date = 50 + saved

====
